---- MODULE Spec2Model ----
(***************************************************************************)
(* Projection engine of the home-purchase analyzer: amortization, equity   *)
(* projection, the year-by-year buy / rent simulator and the scenario      *)
(* comparator.                                                             *)
(*                                                                         *)
(* Numbers.  The program computes in IEEE doubles.  Every input set below  *)
(* is chosen so that each intermediate value of the computation is an      *)
(* integer and each division is exact (rates of 0 % and 1200 % a year give *)
(* monthly rates 0 and 1, raises of 0 % and 100 % give factors 1 and 2,    *)
(* amounts are multiples of the divisors they meet).  On such inputs the   *)
(* double arithmetic is exact, so the integer operators below compute what *)
(* the program computes.                                                   *)
(***************************************************************************)
EXTENDS Integers, Sequences, FiniteSets, TLC

VARIABLES
    amIn,               \* arguments of the amortization calls
    amPayment,          \* <<>> or <<calculateMonthlyPayment(...)>>
    amSchedule,         \* result of generateAmortizationSchedule
    amGenerated,        \* generateAmortizationSchedule has returned
    incomeAdjustments,  \* appState.incomeAdjustments
    simIn,              \* arguments of calculateBuyVsRent
    simOut,             \* <<>> or <<[buy, rent, equityData]>>
    cmpIn,              \* arguments of runComprehensiveComparison
    cmpOut,             \* <<>> or <<[scenarioA, scenarioB, winner]>>
    goalIn,             \* arguments of calculateYearsToGoal
    goalPc,             \* "call", "loop" or "done": position in calculateYearsToGoal
    goalBalance,        \* its local balance
    goalMonths,         \* its local months
    goalResult,         \* <<>> or <<returned value>>
    calcIn,             \* the calculator function called and its arguments
    calcOut,            \* <<>> or <<returned value>>
    scenarios,          \* the scenario list kept in localStorage
    storeResult,        \* <<>> or <<the store call made last and what it returned>>
    appLifeEvents,      \* appState.lifeEvents
    formRows            \* the inputs of the rows of #life-events-table

amVars  == <<amIn, amPayment, amSchedule, amGenerated>>
simVars == <<incomeAdjustments, simIn, simOut>>
cmpVars == <<cmpIn, cmpOut>>
goalVars == <<goalIn, goalPc, goalBalance, goalMonths, goalResult>>
calcVars == <<calcIn, calcOut>>
storeVars == <<scenarios, storeResult>>
formVars == <<appLifeEvents, formRows>>
vars    == <<amIn, amPayment, amSchedule, amGenerated,
             incomeAdjustments, simIn, simOut, cmpIn, cmpOut,
             goalIn, goalPc, goalBalance, goalMonths, goalResult,
             calcIn, calcOut, scenarios, storeResult, appLifeEvents, formRows>>

----------------------------------------------------------------------------
(* Bounds *)

MaxTerm == 2            \* longest loan term (years) of the amortization inputs
MaxYears == 3           \* longest horizon of the simulator
MaxEvents == 2          \* most life events passed to the simulator
MaxAdjustments == 1     \* most entries of appState.incomeAdjustments
MaxSeries == 5          \* longest net-worth series handed to determineWinner
MaxPrompted == 2        \* longest adjustment list built through addIncomeAdjustment
MaxImported == 2        \* most scenarios in one import file
MaxRows == 2            \* most rows of the life-events table

\* A principal every divisor of the model divides: 12..72 months, 2^12 - 1.
Unit == 16 * 4095

(* Program constants *)

MonthsPerYear == 12
MaxMonths == 1200       \* maxMonths = 100 * 12 of calculateYearsToGoal

----------------------------------------------------------------------------
(* Arithmetic helpers *)

Max(a, b) == IF a >= b THEN a ELSE b
Min(a, b) == IF a <= b THEN a ELSE b
Abs(a) == IF a >= 0 THEN a ELSE -a

RECURSIVE Pow(_, _)
Pow(b, e) == IF e <= 0 THEN 1 ELSE b * Pow(b, e - 1)

\* annualRate / 100 / 12
MonthlyRate(annualRate) == (annualRate \div 100) \div MonthsPerYear

----------------------------------------------------------------------------
(* Amortization engine *)

\* Mutant: the payment ignores interest (always principal / numPayments).
calculateMonthlyPayment_NoInterest(principal, annualRate, years) ==
    IF principal <= 0 \/ years <= 0 THEN 0
    ELSE principal \div (years * MonthsPerYear)

\* Mutant: the 0 % branch divides by the years, not by the payments.
calculateMonthlyPayment_PerYear(principal, annualRate, years) ==
    IF principal <= 0 \/ years <= 0 THEN 0
    ELSE LET monthlyRate == MonthlyRate(annualRate)
             numPayments == years * MonthsPerYear
         IN  IF monthlyRate = 0
             THEN principal \div years
             ELSE (principal * (monthlyRate * Pow(1 + monthlyRate, numPayments)))
                      \div (Pow(1 + monthlyRate, numPayments) - 1)

calculateMonthlyPayment(principal, annualRate, years) ==
    IF principal <= 0 \/ years <= 0 THEN 0
    ELSE LET monthlyRate == MonthlyRate(annualRate)
             numPayments == years * MonthsPerYear
         IN  IF monthlyRate = 0
             THEN principal \div numPayments
             ELSE (principal * (monthlyRate * Pow(1 + monthlyRate, numPayments)))
                      \div (Pow(1 + monthlyRate, numPayments) - 1)

RECURSIVE AmortizationRows(_, _, _, _, _)
AmortizationRows(month, numPayments, balance, monthlyRate, monthlyPayment) ==
    IF month > numPayments THEN <<>>
    ELSE LET interestPayment == balance * monthlyRate
             principalPayment == monthlyPayment - interestPayment
             reduced == balance - principalPayment
             newBalance == IF month = numPayments THEN 0 ELSE reduced
         IN  << [month |-> month,
                 payment |-> monthlyPayment,
                 principal |-> principalPayment,
                 interest |-> interestPayment,
                 balance |-> Max(0, newBalance)] >>
             \o AmortizationRows(month + 1, numPayments, newBalance,
                                 monthlyRate, monthlyPayment)

generateAmortizationSchedule(principal, annualRate, years) ==
    AmortizationRows(1, years * MonthsPerYear, principal,
                     MonthlyRate(annualRate),
                     calculateMonthlyPayment(principal, annualRate, years))

----------------------------------------------------------------------------
(* Equity projector *)

RECURSIVE EquityRows(_, _, _, _, _, _)

\* Mutant: a negative equity is reported as 0 (Math.max(0, equity)).
EquityRows_Clamped(year, years, schedule, purchasePrice, principal, appreciationRate) ==
    IF year > years \/ year * MonthsPerYear - 1 >= Len(schedule) THEN <<>>
    ELSE LET downPayment == purchasePrice - principal
             loanBalance == schedule[year * MonthsPerYear].balance
             homeValue == purchasePrice * Pow(1 + (appreciationRate \div 100), year)
             principalPaid == principal - loanBalance
             equity == downPayment + principalPaid + (homeValue - purchasePrice)
         IN  << [year |-> year,
                 homeValue |-> homeValue,
                 loanBalance |-> loanBalance,
                 principalPaid |-> principalPaid,
                 equity |-> IF equity < 0 THEN 0 ELSE equity] >>
             \o EquityRows(year + 1, years, schedule, purchasePrice, principal,
                           appreciationRate)

EquityRows(year, years, schedule, purchasePrice, principal, appreciationRate) ==
    IF year > years \/ year * MonthsPerYear - 1 >= Len(schedule) THEN <<>>
    ELSE LET downPayment == purchasePrice - principal
             loanBalance == schedule[year * MonthsPerYear].balance
             homeValue == purchasePrice * Pow(1 + (appreciationRate \div 100), year)
             principalPaid == principal - loanBalance
             equity == downPayment + principalPaid + (homeValue - purchasePrice)
         IN  << [year |-> year,
                 homeValue |-> homeValue,
                 loanBalance |-> loanBalance,
                 principalPaid |-> principalPaid,
                 equity |-> equity] >>
             \o EquityRows(year + 1, years, schedule, purchasePrice, principal,
                           appreciationRate)

\* Mutant: the projection loop stops one year early (year < years).
calculateEquityOverTime_OneShort(purchasePrice, principal, rate, years, appreciationRate) ==
    EquityRows(1, years - 1, generateAmortizationSchedule(principal, rate, years),
               purchasePrice, principal, appreciationRate)

\* The fourth argument is both the loan term the schedule is amortized over
\* and the number of years projected.
calculateEquityOverTime(purchasePrice, principal, rate, years, appreciationRate) ==
    EquityRows(1, years, generateAmortizationSchedule(principal, rate, years),
               purchasePrice, principal, appreciationRate)

----------------------------------------------------------------------------
(* Payment composer and the scenario record built by handleCalculate *)

\* Mutant: a down payment of exactly 20 % still pays the insurance.
calculatePMI_Above20(loanAmount, purchasePrice, downPaymentPercent) ==
    IF downPaymentPercent > 20 THEN 0
    ELSE (loanAmount * 75) \div (10000 * MonthsPerYear)

\* loanAmount * 0.0075 / 12
calculatePMI(loanAmount, purchasePrice, downPaymentPercent) ==
    IF downPaymentPercent >= 20 THEN 0
    ELSE (loanAmount * 75) \div (10000 * MonthsPerYear)

calculateTotalMonthlyPayment(principal, rate, years, propertyTax, insurance, hoa, pmi) ==
    LET principalAndInterest == calculateMonthlyPayment(principal, rate, years)
    IN  [principalAndInterest |-> principalAndInterest,
         pmi |-> pmi,
         propertyTax |-> propertyTax,
         insurance |-> insurance,
         hoa |-> hoa,
         totalPayment |-> principalAndInterest + pmi + propertyTax + insurance + hoa]

\* appState.currentScenario after handleCalculate on the given form values.
handleCalculate(propertyInfo, incomeInfo) ==
    LET loanAmount == propertyInfo.purchasePrice - propertyInfo.downPaymentAmount
        pmi == calculatePMI(loanAmount, propertyInfo.purchasePrice,
                            propertyInfo.downPaymentPercent)
        paymentBreakdown ==
            calculateTotalMonthlyPayment(loanAmount, propertyInfo.interestRate,
                                         propertyInfo.loanTerm, propertyInfo.propertyTax,
                                         propertyInfo.insurance, propertyInfo.hoa, pmi)
        totalMonthlyCost == paymentBreakdown.totalPayment + propertyInfo.utilities
                                + propertyInfo.maintenance
    IN  [propertyInfo |-> propertyInfo,
         incomeInfo |-> incomeInfo,
         calculations |-> [totalPayment |-> paymentBreakdown.totalPayment,
                           loanAmount |-> loanAmount,
                           totalMonthlyCost |-> totalMonthlyCost]]

----------------------------------------------------------------------------
(* Year-by-year financial simulator *)

\* appState.incomeAdjustments.find(adj => adj.year === year): <<>> or <<adj>>
RECURSIVE FindAdjustment(_, _, _)
FindAdjustment(adjustments, year, i) ==
    IF i > Len(adjustments) THEN <<>>
    ELSE IF adjustments[i].year = year THEN << adjustments[i] >>
    ELSE FindAdjustment(adjustments, year, i + 1)

\* lifeEvents.forEach(...) of the buy loop, from event i on; acc holds
\* oneTimeExpense, ongoingExpenseAdjustment and currentIncome.
RECURSIVE ApplyLifeEvents(_, _, _, _)

\* Mutant: the type of a one-time event is never matched (misspelt string).
ApplyLifeEvents_NoOneTime(lifeEvents, year, i, acc) ==
    IF i > Len(lifeEvents) THEN acc
    ELSE LET event == lifeEvents[i]
             next ==
                 IF event.year = year
                 THEN IF event.type = "ongoing"
                      THEN [acc EXCEPT !.ongoingExpenseAdjustment =
                                           @ + (event.amount \div MonthsPerYear)]
                      ELSE IF event.type = "income"
                      THEN [acc EXCEPT !.currentIncome = @ + event.amount]
                      ELSE acc
                 ELSE acc
         IN  ApplyLifeEvents(lifeEvents, year, i + 1, next)

\* Mutant: an income event sets the income (=) instead of adding to it (+=).
ApplyLifeEvents_IncomeReplaces(lifeEvents, year, i, acc) ==
    IF i > Len(lifeEvents) THEN acc
    ELSE LET event == lifeEvents[i]
             next ==
                 IF event.year = year
                 THEN IF event.type = "one-time"
                      THEN [acc EXCEPT !.oneTimeExpense = @ + event.amount]
                      ELSE IF event.type = "ongoing"
                      THEN [acc EXCEPT !.ongoingExpenseAdjustment =
                                           @ + (event.amount \div MonthsPerYear)]
                      ELSE IF event.type = "income"
                      THEN [acc EXCEPT !.currentIncome = event.amount]
                      ELSE acc
                 ELSE acc
         IN  ApplyLifeEvents(lifeEvents, year, i + 1, next)

ApplyLifeEvents(lifeEvents, year, i, acc) ==
    IF i > Len(lifeEvents) THEN acc
    ELSE LET event == lifeEvents[i]
             next ==
                 IF event.year = year
                 THEN IF event.type = "one-time"
                      THEN [acc EXCEPT !.oneTimeExpense = @ + event.amount]
                      ELSE IF event.type = "ongoing"
                      THEN [acc EXCEPT !.ongoingExpenseAdjustment =
                                           @ + (event.amount \div MonthsPerYear)]
                      ELSE IF event.type = "income"
                      THEN [acc EXCEPT !.currentIncome = @ + event.amount]
                      ELSE acc
                 ELSE acc
         IN  ApplyLifeEvents(lifeEvents, year, i + 1, next)

\* for (month = 1..12) { portfolio += monthlySavings; portfolio *= 1 + monthlyRate }
RECURSIVE GrowPortfolio(_, _, _, _)

\* Mutant: the month's return is applied before the contribution is added.
GrowPortfolio_GrowFirst(portfolio, monthlySavings, monthlyRate, months) ==
    IF months = 0 THEN portfolio
    ELSE GrowPortfolio(portfolio * (1 + monthlyRate) + monthlySavings,
                       monthlySavings, monthlyRate, months - 1)

GrowPortfolio(portfolio, monthlySavings, monthlyRate, months) ==
    IF months = 0 THEN portfolio
    ELSE GrowPortfolio((portfolio + monthlySavings) * (1 + monthlyRate),
                       monthlySavings, monthlyRate, months - 1)

\* equityData[year - 1]?.equity || 0
EquityOfYear(equityData, year) ==
    IF year <= Len(equityData) THEN equityData[year].equity ELSE 0

\* The loop of calculateYearByYearFinancials from the given year on.
RECURSIVE BuyYears(_, _, _, _, _, _, _, _, _, _, _, _)

\* Mutant: the one-time expenses are subtracted without the floor at 0.
BuyYears_NoFloor(year, years, currentIncome, portfolio, ongoingExpenseAdjustment, monthlyHousing, annualRaise, baseExpenses, savingsRate, lifeEvents, investmentReturn, ctx) ==
    IF year > years THEN <<>>
    ELSE LET raised == currentIncome * (1 + (annualRaise \div 100))
             incomeAdj == FindAdjustment(ctx.adjustments, year, 1)
             adjusted == IF incomeAdj # <<>> THEN incomeAdj[1].income ELSE raised
             monthlyExpenses == monthlyHousing + baseExpenses + ongoingExpenseAdjustment
             after == ApplyLifeEvents(lifeEvents, year, 1,
                          [oneTimeExpense |-> 0,
                           ongoingExpenseAdjustment |-> ongoingExpenseAdjustment,
                           currentIncome |-> adjusted])
             finalMonthlyIncome == after.currentIncome \div MonthsPerYear
             monthlyDiscretionary == finalMonthlyIncome - monthlyExpenses
             monthlySavings == IF monthlyDiscretionary > 0
                               THEN (monthlyDiscretionary * savingsRate) \div 100
                               ELSE 0
             grown == GrowPortfolio(portfolio, monthlySavings,
                                    MonthlyRate(investmentReturn), MonthsPerYear)
             newPortfolio == grown - after.oneTimeExpense
             equity == EquityOfYear(ctx.equityData, year)
         IN  << [year |-> year,
                 annualIncome |-> after.currentIncome,
                 monthlyIncome |-> finalMonthlyIncome,
                 monthlyExpenses |-> monthlyExpenses,
                 monthlyDiscretionary |-> monthlyDiscretionary,
                 monthlySavings |-> monthlySavings,
                 oneTimeExpense |-> after.oneTimeExpense,
                 portfolio |-> newPortfolio,
                 equity |-> equity,
                 netWorth |-> newPortfolio + equity] >>
             \o BuyYears(year + 1, years, after.currentIncome, newPortfolio,
                         after.ongoingExpenseAdjustment, monthlyHousing, annualRaise,
                         baseExpenses, savingsRate, lifeEvents, investmentReturn, ctx)

BuyYears(year, years, currentIncome, portfolio, ongoingExpenseAdjustment, monthlyHousing, annualRaise, baseExpenses, savingsRate, lifeEvents, investmentReturn, ctx) ==
    IF year > years THEN <<>>
    ELSE LET raised == currentIncome * (1 + (annualRaise \div 100))
             incomeAdj == FindAdjustment(ctx.adjustments, year, 1)
             adjusted == IF incomeAdj # <<>> THEN incomeAdj[1].income ELSE raised
             monthlyExpenses == monthlyHousing + baseExpenses + ongoingExpenseAdjustment
             after == ApplyLifeEvents(lifeEvents, year, 1,
                          [oneTimeExpense |-> 0,
                           ongoingExpenseAdjustment |-> ongoingExpenseAdjustment,
                           currentIncome |-> adjusted])
             finalMonthlyIncome == after.currentIncome \div MonthsPerYear
             monthlyDiscretionary == finalMonthlyIncome - monthlyExpenses
             monthlySavings == IF monthlyDiscretionary > 0
                               THEN (monthlyDiscretionary * savingsRate) \div 100
                               ELSE 0
             grown == GrowPortfolio(portfolio, monthlySavings,
                                    MonthlyRate(investmentReturn), MonthsPerYear)
             newPortfolio == Max(0, grown - after.oneTimeExpense)
             equity == EquityOfYear(ctx.equityData, year)
         IN  << [year |-> year,
                 annualIncome |-> after.currentIncome,
                 monthlyIncome |-> finalMonthlyIncome,
                 monthlyExpenses |-> monthlyExpenses,
                 monthlyDiscretionary |-> monthlyDiscretionary,
                 monthlySavings |-> monthlySavings,
                 oneTimeExpense |-> after.oneTimeExpense,
                 portfolio |-> newPortfolio,
                 equity |-> equity,
                 netWorth |-> newPortfolio + equity] >>
             \o BuyYears(year + 1, years, after.currentIncome, newPortfolio,
                         after.ongoingExpenseAdjustment, monthlyHousing, annualRaise,
                         baseExpenses, savingsRate, lifeEvents, investmentReturn, ctx)

\* The years argument handed to calculateEquityOverTime by the simulator.
SimulatorEquityYears(scenario, years) == Min(years, scenario.propertyInfo.loanTerm)

\* Mutant: the down payment is not taken out of the starting portfolio.
calculateYearByYearFinancials_FullPortfolio(adjustments, scenario, years, annualRaise, baseExpenses, savingsRate, lifeEvents, investmentReturn, appreciationRate) ==
    LET monthlyHousing == scenario.calculations.totalMonthlyCost
        startingPortfolio == scenario.incomeInfo.currentPortfolio
        equityData == calculateEquityOverTime(scenario.propertyInfo.purchasePrice,
                                              scenario.calculations.loanAmount,
                                              scenario.propertyInfo.interestRate,
                                              SimulatorEquityYears(scenario, years),
                                              appreciationRate)
    IN  [yearlyData |-> BuyYears(1, years, scenario.incomeInfo.annualIncome,
                                 startingPortfolio, 0, monthlyHousing, annualRaise,
                                 baseExpenses, savingsRate, lifeEvents, investmentReturn,
                                 [adjustments |-> adjustments, equityData |-> equityData]),
         equityData |-> equityData]

calculateYearByYearFinancials(adjustments, scenario, years, annualRaise, baseExpenses, savingsRate, lifeEvents, investmentReturn, appreciationRate) ==
    LET monthlyHousing == scenario.calculations.totalMonthlyCost
        startingPortfolio == Max(0, scenario.incomeInfo.currentPortfolio
                                      - scenario.propertyInfo.downPaymentAmount)
        equityData == calculateEquityOverTime(scenario.propertyInfo.purchasePrice,
                                              scenario.calculations.loanAmount,
                                              scenario.propertyInfo.interestRate,
                                              SimulatorEquityYears(scenario, years),
                                              appreciationRate)
    IN  [yearlyData |-> BuyYears(1, years, scenario.incomeInfo.annualIncome,
                                 startingPortfolio, 0, monthlyHousing, annualRaise,
                                 baseExpenses, savingsRate, lifeEvents, investmentReturn,
                                 [adjustments |-> adjustments, equityData |-> equityData]),
         equityData |-> equityData]

\* lifeEvents.forEach(...) of the rent loop.
RECURSIVE ApplyLifeEventsRent(_, _, _, _)

\* Mutant: the rent loop adds the yearly amount of an ongoing event to the
\* monthly adjustment (the division by 12 is missing).
ApplyLifeEventsRent_OngoingYearly(lifeEvents, year, i, acc) ==
    IF i > Len(lifeEvents) THEN acc
    ELSE LET event == lifeEvents[i]
             next ==
                 IF event.year = year
                 THEN IF event.type = "one-time"
                      THEN [acc EXCEPT !.oneTimeExpense = @ + event.amount]
                      ELSE IF event.type = "ongoing"
                      THEN [acc EXCEPT !.ongoingExpenseAdjustment = @ + event.amount]
                      ELSE IF event.type = "income"
                      THEN [acc EXCEPT !.currentIncome = @ + event.amount]
                      ELSE acc
                 ELSE acc
         IN  ApplyLifeEventsRent(lifeEvents, year, i + 1, next)

ApplyLifeEventsRent(lifeEvents, year, i, acc) ==
    IF i > Len(lifeEvents) THEN acc
    ELSE LET event == lifeEvents[i]
             next ==
                 IF event.year = year
                 THEN IF event.type = "one-time"
                      THEN [acc EXCEPT !.oneTimeExpense = @ + event.amount]
                      ELSE IF event.type = "ongoing"
                      THEN [acc EXCEPT !.ongoingExpenseAdjustment =
                                           @ + (event.amount \div MonthsPerYear)]
                      ELSE IF event.type = "income"
                      THEN [acc EXCEPT !.currentIncome = @ + event.amount]
                      ELSE acc
                 ELSE acc
         IN  ApplyLifeEventsRent(lifeEvents, year, i + 1, next)

\* The rent loop of calculateBuyVsRent from the given year on.
RECURSIVE RentYears(_, _, _, _, _, _, _, _, _, _, _, _, _)
RentYears(year, years, currentIncome, portfolio, ongoingExpenseAdjustment, currentRent, rentIncrease, annualRaise, baseExpenses, savingsRate, lifeEvents, investmentReturn, adjustments) ==
    IF year > years THEN <<>>
    ELSE LET raised == currentIncome * (1 + (annualRaise \div 100))
             newRent == currentRent * (1 + (rentIncrease \div 100))
             incomeAdj == FindAdjustment(adjustments, year, 1)
             adjusted == IF incomeAdj # <<>> THEN incomeAdj[1].income ELSE raised
             monthlyExpenses == newRent + baseExpenses + ongoingExpenseAdjustment
             after == ApplyLifeEventsRent(lifeEvents, year, 1,
                          [oneTimeExpense |-> 0,
                           ongoingExpenseAdjustment |-> ongoingExpenseAdjustment,
                           currentIncome |-> adjusted])
             finalMonthlyIncome == after.currentIncome \div MonthsPerYear
             monthlyDiscretionary == finalMonthlyIncome - monthlyExpenses
             monthlySavings == IF monthlyDiscretionary > 0
                               THEN (monthlyDiscretionary * savingsRate) \div 100
                               ELSE 0
             grown == GrowPortfolio(portfolio, monthlySavings,
                                    MonthlyRate(investmentReturn), MonthsPerYear)
             newPortfolio == Max(0, grown - after.oneTimeExpense)
         IN  << [year |-> year,
                 annualIncome |-> after.currentIncome,
                 monthlyRent |-> newRent,
                 monthlyExpenses |-> monthlyExpenses,
                 monthlyDiscretionary |-> monthlyDiscretionary,
                 monthlySavings |-> monthlySavings,
                 portfolio |-> newPortfolio,
                 netWorth |-> newPortfolio] >>
             \o RentYears(year + 1, years, after.currentIncome, newPortfolio,
                          after.ongoingExpenseAdjustment, newRent, rentIncrease,
                          annualRaise, baseExpenses, savingsRate, lifeEvents,
                          investmentReturn, adjustments)

\* Mutant: the rent loop stops one year early (year < years).
calculateBuyVsRent_RentOneShort(adjustments, scenario, initialRent, rentIncrease, years, annualRaise, baseExpenses, savingsRate, lifeEvents, investmentReturn, appreciationRate) ==
    LET buyScenario == calculateYearByYearFinancials(adjustments, scenario, years,
                           annualRaise, baseExpenses, savingsRate, lifeEvents,
                           investmentReturn, appreciationRate)
    IN  [buy |-> buyScenario.yearlyData,
         rent |-> RentYears(1, years - 1, scenario.incomeInfo.annualIncome,
                            scenario.incomeInfo.currentPortfolio, 0, initialRent,
                            rentIncrease, annualRaise, baseExpenses, savingsRate,
                            lifeEvents, investmentReturn, adjustments),
         equityData |-> buyScenario.equityData]

calculateBuyVsRent(adjustments, scenario, initialRent, rentIncrease, years, annualRaise, baseExpenses, savingsRate, lifeEvents, investmentReturn, appreciationRate) ==
    LET buyScenario == calculateYearByYearFinancials(adjustments, scenario, years,
                           annualRaise, baseExpenses, savingsRate, lifeEvents,
                           investmentReturn, appreciationRate)
    IN  [buy |-> buyScenario.yearlyData,
         rent |-> RentYears(1, years, scenario.incomeInfo.annualIncome,
                            scenario.incomeInfo.currentPortfolio, 0, initialRent,
                            rentIncrease, annualRaise, baseExpenses, savingsRate,
                            lifeEvents, investmentReturn, adjustments),
         equityData |-> buyScenario.equityData]

----------------------------------------------------------------------------
(* Investment growth projector.  The loop over the years year..years is    *)
(* evaluated as two consecutive runs, the second continuing from the       *)
(* totalValue and totalInvested the first one left, which keeps the        *)
(* evaluation of a 100-year projection shallow.                            *)

RECURSIVE InvestmentRows(_, _, _, _, _, _)
InvestmentRows(year, years, totalValue, totalInvested, monthlyContribution, monthlyRate) ==
    IF year > years THEN <<>>
    ELSE IF year = years
    THEN LET value == GrowPortfolio(totalValue, monthlyContribution, monthlyRate,
                                    MonthsPerYear)
             invested == totalInvested + MonthsPerYear * monthlyContribution
         IN  << [year |-> year,
                 invested |-> invested,
                 value |-> value,
                 gains |-> value - invested] >>
    ELSE LET mid == (year + years) \div 2
             head == InvestmentRows(year, mid, totalValue, totalInvested,
                                    monthlyContribution, monthlyRate)
             last == head[Len(head)]
         IN  head \o InvestmentRows(mid + 1, years, last.value, last.invested,
                                    monthlyContribution, monthlyRate)

\* Mutant: totalValue starts at 0, the initial amount is only counted as invested.
calculateInvestmentGrowth_NoInitialValue(initialAmount, monthlyContribution, annualReturn, years) ==
    InvestmentRows(1, years, 0, initialAmount, monthlyContribution,
                   MonthlyRate(annualReturn))

calculateInvestmentGrowth(initialAmount, monthlyContribution, annualReturn, years) ==
    InvestmentRows(1, years, initialAmount, initialAmount, monthlyContribution,
                   MonthlyRate(annualReturn))

----------------------------------------------------------------------------
(* Affordability classifier.  The ratios are (x / monthlyIncome) * 100; the *)
(* inputs drawn below are those on which the double result is the exact     *)
(* quotient (3300 / 10000 gives 33), so the integer quotient is that value. *)

\* Mutant: the thresholds are inclusive (>=).
calculateAffordabilityRatios_Inclusive(monthlyPayment, monthlyIncome, otherDebtPayments) ==
    LET housingRatio == (monthlyPayment * 100) \div monthlyIncome
        totalDebt == monthlyPayment + otherDebtPayments
        dtiRatio == (totalDebt * 100) \div monthlyIncome
    IN  [housingRatio |-> housingRatio,
         dtiRatio |-> dtiRatio,
         withinGuidelines |-> housingRatio <= 28 /\ dtiRatio <= 36,
         status |-> IF housingRatio >= 40 \/ dtiRatio >= 43 THEN "warning"
                    ELSE IF housingRatio >= 33 \/ dtiRatio >= 36 THEN "caution"
                    ELSE IF housingRatio >= 28 \/ dtiRatio >= 30 THEN "good"
                    ELSE "excellent"]

calculateAffordabilityRatios(monthlyPayment, monthlyIncome, otherDebtPayments) ==
    LET housingRatio == (monthlyPayment * 100) \div monthlyIncome
        totalDebt == monthlyPayment + otherDebtPayments
        dtiRatio == (totalDebt * 100) \div monthlyIncome
    IN  [housingRatio |-> housingRatio,
         dtiRatio |-> dtiRatio,
         withinGuidelines |-> housingRatio <= 28 /\ dtiRatio <= 36,
         status |-> IF housingRatio > 40 \/ dtiRatio > 43 THEN "warning"
                    ELSE IF housingRatio > 33 \/ dtiRatio > 36 THEN "caution"
                    ELSE IF housingRatio > 28 \/ dtiRatio > 30 THEN "good"
                    ELSE "excellent"]

----------------------------------------------------------------------------
(* Comparator *)

\* netWorthData[i]?.totalNetWorth || 0, for the 1-based year i + 1
TotalNetWorthAt(netWorthData, year) ==
    IF year >= 1 /\ year <= Len(netWorthData)
    THEN netWorthData[year].totalNetWorth
    ELSE 0

\* equityData.map(...) joined with portfolioData[index] || {value: 0}
NetWorthRows(equityData, portfolioData) ==
    [ index \in 1 .. Len(equityData) |->
        LET value == IF index <= Len(portfolioData) THEN portfolioData[index].value ELSE 0
        IN  [year |-> equityData[index].year,
             equity |-> equityData[index].equity,
             portfolio |-> value,
             totalNetWorth |-> equityData[index].equity + value] ]

\* The result record of calculateScenarioFinancials, restricted to the fields
\* the winner is computed from (the goal-seek and retirement fields are left out).
calculateScenarioFinancials(scenario, otherExpenses, savingsRate, investmentReturn, appreciationRate, timeframe) ==
    LET monthlyIncome == scenario.incomeInfo.annualIncome \div MonthsPerYear
        monthlyHousingCost == scenario.calculations.totalMonthlyCost
        monthlyTotalExpenses == monthlyHousingCost + otherExpenses
        monthlyDiscretionary == monthlyIncome - monthlyTotalExpenses
        monthlyToInvestments == IF monthlyDiscretionary > 0
                                THEN (monthlyDiscretionary * savingsRate) \div 100
                                ELSE 0
        startingPortfolio == Max(0, scenario.incomeInfo.currentPortfolio
                                      - scenario.propertyInfo.downPaymentAmount)
        equityData == calculateEquityOverTime(scenario.propertyInfo.purchasePrice,
                                              scenario.calculations.loanAmount,
                                              scenario.propertyInfo.interestRate,
                                              Min(timeframe, scenario.propertyInfo.loanTerm),
                                              appreciationRate)
        portfolioData == calculateInvestmentGrowth(
                             IF startingPortfolio > 0 THEN startingPortfolio ELSE 0,
                             IF monthlyToInvestments > 0 THEN monthlyToInvestments ELSE 0,
                             investmentReturn, timeframe)
        netWorthData == NetWorthRows(equityData, portfolioData)
    IN  [scenario |-> scenario,
         monthlyDiscretionary |-> monthlyDiscretionary,
         monthlyToInvestments |-> monthlyToInvestments,
         startingPortfolio |-> startingPortfolio,
         equityData |-> equityData,
         portfolioData |-> portfolioData,
         netWorthData |-> netWorthData,
         finalNetWorth |-> TotalNetWorthAt(netWorthData, timeframe)]

\* Mutant: an exact tie does not count as a crossover (strict comparisons).
CrossedOver_Strict(resultsA, resultsB, i) ==
    LET networthA == TotalNetWorthAt(resultsA.netWorthData, i + 1)
        networthB == TotalNetWorthAt(resultsB.netWorthData, i + 1)
        prevNetworthA == TotalNetWorthAt(resultsA.netWorthData, i)
        prevNetworthB == TotalNetWorthAt(resultsB.netWorthData, i)
    IN  \/ (prevNetworthA < prevNetworthB /\ networthA > networthB)
        \/ (prevNetworthA > prevNetworthB /\ networthA < networthB)

\* The crossover test of determineWinner on the 0-based index i.
CrossedOver(resultsA, resultsB, i) ==
    LET networthA == TotalNetWorthAt(resultsA.netWorthData, i + 1)
        networthB == TotalNetWorthAt(resultsB.netWorthData, i + 1)
        prevNetworthA == TotalNetWorthAt(resultsA.netWorthData, i)
        prevNetworthB == TotalNetWorthAt(resultsB.netWorthData, i)
    IN  \/ (prevNetworthA < prevNetworthB /\ networthA >= networthB)
        \/ (prevNetworthA > prevNetworthB /\ networthA <= networthB)

\* The loop of determineWinner from index i on: <<>> is null.
RECURSIVE BreakEvenFrom(_, _, _, _)
BreakEvenFrom(resultsA, resultsB, timeframe, i) ==
    IF i >= timeframe THEN <<>>
    ELSE IF i = 0 THEN BreakEvenFrom(resultsA, resultsB, timeframe, i + 1)
    ELSE IF CrossedOver(resultsA, resultsB, i) THEN << i + 1 >>
    ELSE BreakEvenFrom(resultsA, resultsB, timeframe, i + 1)

determineWinner(resultsA, resultsB, timeframe) ==
    LET finalDiff == resultsA.finalNetWorth - resultsB.finalNetWorth
    IN  [winner |-> IF finalDiff > 0 THEN "A" ELSE "B",
         difference |-> Abs(finalDiff),
         breakEvenYear |-> BreakEvenFrom(resultsA, resultsB, timeframe, 0)]

runComprehensiveComparison(scenarioA, scenarioB, otherExpenses, savingsRate, investmentReturn, appreciationRate, timeframe) ==
    LET resultsA == calculateScenarioFinancials(scenarioA, otherExpenses, savingsRate,
                        investmentReturn, appreciationRate, timeframe)
        resultsB == calculateScenarioFinancials(scenarioB, otherExpenses, savingsRate,
                        investmentReturn, appreciationRate, timeframe)
    IN  [scenarioA |-> resultsA,
         scenarioB |-> resultsB,
         winner |-> determineWinner(resultsA, resultsB, timeframe)]

----------------------------------------------------------------------------
(* Goal-seek solver.  The while loop runs up to 1200 times, so it is        *)
(* modelled by its position: the entry tests, one iteration, the return.    *)

\* Infinity, and a finite number of years
Never == [finite |-> FALSE, years |-> 0]
Years(n) == [finite |-> TRUE, years |-> n]

\* Mutant: the test for a non-positive contribution is missing.
YearsToGoalEntry_NoContributionTest(startingAmount, monthlyContribution, goalAmount) ==
    IF startingAmount >= goalAmount THEN "zero"
    ELSE "loop"

\* The two early returns of calculateYearsToGoal.
YearsToGoalEntry(startingAmount, monthlyContribution, goalAmount) ==
    IF startingAmount >= goalAmount THEN "zero"
    ELSE IF monthlyContribution <= 0 /\ startingAmount < goalAmount THEN "never"
    ELSE "loop"

\* Mutant: the months are returned without the conversion to years.
YearsToGoalReturnValue_Months(months) ==
    IF months >= MaxMonths THEN Never
    ELSE Years(months)

\* Mutant: the months are rounded down to whole years (Math.floor).
YearsToGoalReturnValue_Floor(months) ==
    IF months >= MaxMonths THEN Never
    ELSE Years(months \div MonthsPerYear)

\* months >= maxMonths ? Infinity : Math.ceil(months / 12)
YearsToGoalReturnValue(months) ==
    IF months >= MaxMonths THEN Never
    ELSE Years((months + MonthsPerYear - 1) \div MonthsPerYear)

----------------------------------------------------------------------------
(* Specification of the amortization engine: the arguments are drawn in    *)
(* Init, the two actions are the two calls.                                *)

\* A 1200 % loan doubles the balance every month: one year stays in range.
LoanInputs ==
    { in \in [principal : {-Unit, 0, Unit, 2 * Unit, 3 * Unit},
              annualRate : {0, 1200},
              years : -1 .. MaxTerm] :
        in.annualRate = 0 \/ in.years <= 1 }
    \cup { [principal |-> 24000, annualRate |-> 0, years |-> 2] }

IdleSim == /\ incomeAdjustments = <<>>
           /\ simIn = <<>>
           /\ simOut = <<>>
IdleCmp == /\ cmpIn = <<>>
           /\ cmpOut = <<>>
IdleGoal == /\ goalIn = <<>>
            /\ goalPc = "idle"
            /\ goalBalance = 0
            /\ goalMonths = 0
            /\ goalResult = <<>>
IdleCalc == /\ calcIn = <<>>
            /\ calcOut = <<>>
IdleStore == /\ scenarios = <<>>
             /\ storeResult = <<>>
IdleForm == /\ appLifeEvents = <<>>
            /\ formRows = <<>>
IdleAm  == /\ amIn = <<>>
           /\ amPayment = <<>>
           /\ amSchedule = <<>>
           /\ amGenerated = FALSE

InitAmort ==
    /\ amIn \in LoanInputs
    /\ amPayment = <<>>
    /\ amSchedule = <<>>
    /\ amGenerated = FALSE
    /\ IdleSim
    /\ IdleCmp
    /\ IdleGoal
    /\ IdleCalc
    /\ IdleStore
    /\ IdleForm

CalculateMonthlyPayment ==
    /\ amPayment = <<>>
    /\ amPayment' = << calculateMonthlyPayment(amIn.principal, amIn.annualRate, amIn.years) >>
    /\ UNCHANGED <<amIn, amSchedule, amGenerated, simVars, cmpVars, goalVars, calcVars,
                   storeVars, formVars>>

GenerateAmortizationSchedule ==
    /\ ~amGenerated
    /\ amSchedule' = generateAmortizationSchedule(amIn.principal, amIn.annualRate, amIn.years)
    /\ amGenerated' = TRUE
    /\ UNCHANGED <<amIn, amPayment, simVars, cmpVars, goalVars, calcVars, storeVars, formVars>>

NextAmort == CalculateMonthlyPayment \/ GenerateAmortizationSchedule

SpecAmort == InitAmort /\ [][NextAmort]_vars

----------------------------------------------------------------------------
(* Specification of the simulator: appState.incomeAdjustments and the      *)
(* arguments are drawn in Init, the action is the call handleUpdateAnalysis *)
(* makes (calculateBuyVsRent, which runs calculateYearByYearFinancials and  *)
(* the rent loop).                                                         *)

PropertyForm(price, percent, rate, term) ==
    [purchasePrice |-> price,
     downPaymentPercent |-> percent,
     downPaymentAmount |-> (price * percent) \div 100,
     interestRate |-> rate,
     loanTerm |-> term,
     propertyTax |-> 400, insurance |-> 150, hoa |-> 0,
     utilities |-> 0, maintenance |-> 0]

IncomeForm(income, return, portfolio) ==
    [annualIncome |-> income, monthlyDebts |-> 0,
     investmentReturn |-> return, currentPortfolio |-> portfolio]

\* An interest-free two-year loan, an interest-free one-year loan, and a
\* one-year loan at a monthly rate of 1 whose down payment exceeds the portfolio.
TwoYearLoan == handleCalculate(PropertyForm(5 * Unit, 20, 0, 2), IncomeForm(120000, 0, 100000))
OneYearLoan == handleCalculate(PropertyForm(5 * Unit, 20, 0, 1), IncomeForm(120000, 0, 100000))
CostlyLoan == handleCalculate(PropertyForm(5 * Unit, 80, 1200, 1), IncomeForm(120000, 0, 20000))

Scenarios == { TwoYearLoan, CostlyLoan }

EventYears == 1 .. MaxYears

LifeEventChoices ==
    { [year |-> y, description |-> "", type |-> "one-time", amount |-> 10000] : y \in EventYears }
    \cup { [year |-> y, description |-> "", type |-> "ongoing", amount |-> 6000] : y \in EventYears }
    \cup { [year |-> y, description |-> "", type |-> "income", amount |-> 12000] : y \in EventYears }

SeqsUpTo(S, n) == UNION { [1 .. k -> S] : k \in 0 .. n }

IsSortedByYear(list) == \A i \in 1 .. Len(list) - 1 : list[i].year <= list[i + 1].year

\* Life-event lists of at most n events, listed by year.
LifeEventLists(n) == { events \in SeqsUpTo(LifeEventChoices, n) : IsSortedByYear(events) }

\* An adjustment overrides the income of year 1 or of year 2.
AdjustmentChoices == [year : {1, 2}, income : {60000}]

\* appState.incomeAdjustments is kept sorted by year (addIncomeAdjustment).
AdjustmentLists(n) == { adjs \in SeqsUpTo(AdjustmentChoices, n) : IsSortedByYear(adjs) }

\* Arguments of calculateBuyVsRent for horizons up to maxYears.  Rent and home
\* prices are flat or double every year; a monthly return of 1 doubles the
\* portfolio every month, so it is drawn for one-year horizons only.
SimInputs(maxYears, maxEvents) ==
    { in \in [scenario : Scenarios,
              initialRent : {2000},
              rentIncrease : {0, 100},
              years : 1 .. maxYears,
              annualRaise : {0, 100},
              baseExpenses : {2500},
              savingsRate : {50},
              lifeEvents : LifeEventLists(maxEvents),
              investmentReturn : {0, 1200},
              appreciationRate : {0, 100}] :
        /\ in.investmentReturn = 0 \/ in.years = 1
        /\ in.rentIncrease = in.appreciationRate }

InitSim ==
    /\ incomeAdjustments \in AdjustmentLists(MaxAdjustments)
    /\ simIn \in SimInputs(MaxYears, MaxEvents)
    /\ simOut = <<>>
    /\ IdleAm
    /\ IdleCmp
    /\ IdleGoal
    /\ IdleCalc
    /\ IdleStore
    /\ IdleForm

CalculateBuyVsRent ==
    /\ simOut = <<>>
    /\ simOut' = << calculateBuyVsRent(incomeAdjustments, simIn.scenario,
                        simIn.initialRent, simIn.rentIncrease, simIn.years,
                        simIn.annualRaise, simIn.baseExpenses, simIn.savingsRate,
                        simIn.lifeEvents, simIn.investmentReturn,
                        simIn.appreciationRate) >>
    /\ UNCHANGED <<incomeAdjustments, simIn, amVars, cmpVars, goalVars, calcVars,
                   storeVars, formVars>>

NextSim == CalculateBuyVsRent

SpecSim == InitSim /\ [][NextSim]_vars

----------------------------------------------------------------------------
(* Specification of the buy and rent loops side by side: calculateBuyVsRent *)
(* on scenarios bought without a down payment, against a flat rent equal to *)
(* the scenario's total monthly housing cost.                               *)

\* Interest-free two-year loans of the whole price, one affordable and one
\* costing more than the income.
ZeroDownLoan == handleCalculate(PropertyForm(48000, 0, 0, 2), IncomeForm(120000, 0, 100000))
ZeroDownDear == handleCalculate(PropertyForm(480000, 0, 0, 2), IncomeForm(120000, 0, 100000))

PairInputs(maxYears, maxEvents) ==
    { in \in [scenario : {ZeroDownLoan, ZeroDownDear},
              initialRent : {ZeroDownLoan.calculations.totalMonthlyCost,
                             ZeroDownDear.calculations.totalMonthlyCost},
              rentIncrease : {0},
              years : 1 .. maxYears,
              annualRaise : {0, 100},
              baseExpenses : {2500},
              savingsRate : {50},
              lifeEvents : LifeEventLists(maxEvents),
              investmentReturn : {0, 1200},
              appreciationRate : {0}] :
        /\ in.investmentReturn = 0 \/ in.years = 1
        /\ in.initialRent = in.scenario.calculations.totalMonthlyCost }

InitPair ==
    /\ incomeAdjustments \in AdjustmentLists(MaxAdjustments)
    /\ simIn \in PairInputs(MaxYears, MaxEvents)
    /\ simOut = <<>>
    /\ IdleAm
    /\ IdleCmp
    /\ IdleGoal
    /\ IdleCalc
    /\ IdleStore
    /\ IdleForm

NextPair == CalculateBuyVsRent

SpecPair == InitPair /\ [][NextPair]_vars

----------------------------------------------------------------------------
(* Specification of the income-adjustment list and the analysis that reads *)
(* it: the list starts empty and is edited through addIncomeAdjustment and  *)
(* removeIncomeAdjustment; handleUpdateAnalysis runs the simulator on the   *)
(* list as it stands, any number of times.                                  *)

\* [adj] put behind the entries of a sorted list with a year <= its own.
InsertByYear(sorted, adj) ==
    SelectSeq(sorted, LAMBDA a : a.year <= adj.year)
        \o << adj >>
        \o SelectSeq(sorted, LAMBDA a : a.year > adj.year)

\* list.sort((a, b) => a.year - b.year): entries of equal year keep their order.
RECURSIVE SortByYear(_)
SortByYear(list) ==
    IF list = <<>> THEN <<>>
    ELSE InsertByYear(SortByYear(SubSeq(list, 1, Len(list) - 1)), list[Len(list)])

\* list.splice(index, 1), index counted from 0
Splice(list, index) == SubSeq(list, 1, index) \o SubSeq(list, index + 2, Len(list))

\* Answers to the two prompts of addIncomeAdjustment (year 0 is rejected).
PromptedYears == {0, 1, 2}
PromptedIncomes == {60000, 90000}

\* The analysis inputs of this specification: the two-year loan, flat rent
\* and prices, income doubling every year, at most one income event.
AdjustInputs ==
    { in \in SimInputs(MaxYears, 1) :
        /\ in.scenario = TwoYearLoan
        /\ in.investmentReturn = 0
        /\ in.appreciationRate = 0
        /\ in.annualRaise = 100
        /\ \A i \in 1 .. Len(in.lifeEvents) : in.lifeEvents[i].type = "income" }

InitAdjust ==
    /\ incomeAdjustments = <<>>
    /\ simIn \in AdjustInputs
    /\ simOut = <<>>
    /\ IdleAm
    /\ IdleCmp
    /\ IdleGoal
    /\ IdleCalc
    /\ IdleStore
    /\ IdleForm

AddIncomeAdjustment ==
    /\ \E year \in PromptedYears, income \in PromptedIncomes :
          IF year < 1 \/ year > 40 \/ income < 0
          THEN UNCHANGED incomeAdjustments
          ELSE /\ Len(incomeAdjustments) < MaxPrompted
               /\ incomeAdjustments' =
                     SortByYear(Append(incomeAdjustments,
                                       [year |-> year, income |-> income]))
    /\ UNCHANGED <<simIn, simOut, amVars, cmpVars, goalVars, calcVars, storeVars, formVars>>

RemoveIncomeAdjustment ==
    /\ \E index \in 0 .. Len(incomeAdjustments) - 1 :
          incomeAdjustments' = Splice(incomeAdjustments, index)
    /\ UNCHANGED <<simIn, simOut, amVars, cmpVars, goalVars, calcVars, storeVars, formVars>>

HandleUpdateAnalysis ==
    /\ simOut' = << calculateBuyVsRent(incomeAdjustments, simIn.scenario,
                        simIn.initialRent, simIn.rentIncrease, simIn.years,
                        simIn.annualRaise, simIn.baseExpenses, simIn.savingsRate,
                        simIn.lifeEvents, simIn.investmentReturn,
                        simIn.appreciationRate) >>
    /\ UNCHANGED <<incomeAdjustments, simIn, amVars, cmpVars, goalVars, calcVars,
                   storeVars, formVars>>

NextAdjust == AddIncomeAdjustment \/ RemoveIncomeAdjustment \/ HandleUpdateAnalysis

SpecAdjust == InitAdjust /\ [][NextAdjust]_vars

----------------------------------------------------------------------------
(* Specification of determineWinner on given net-worth series: the two     *)
(* result records and the timeframe are drawn in Init.                     *)

\* A result record as calculateScenarioFinancials builds it from a series.
ResultsOf(series, timeframe) ==
    LET netWorthData == [ i \in 1 .. Len(series) |-> [year |-> i, totalNetWorth |-> series[i]] ]
    IN  [netWorthData |-> netWorthData,
         finalNetWorth |-> TotalNetWorthAt(netWorthData, timeframe)]

\* Scenario A ranges over every series of 1..3, scenario B stays at 2 (every
\* pattern of lead, tie and lag occurs); a series may end one year before the
\* timeframe, as it does when the loan term is shorter.
WinnerInputs(maxSeries) ==
    UNION { { [resultsA |-> ResultsOf(a, tf),
               resultsB |-> ResultsOf([i \in 1 .. lenB |-> 2], tf),
               timeframe |-> tf] :
                 a \in UNION { [1 .. lenA -> 1 .. 3] : lenA \in {tf - 1, tf} },
                 lenB \in {tf - 1, tf} } :
            tf \in 1 .. maxSeries }

InitWinner ==
    /\ cmpIn \in WinnerInputs(MaxSeries)
    /\ cmpOut = <<>>
    /\ IdleAm
    /\ IdleSim
    /\ IdleGoal
    /\ IdleCalc
    /\ IdleStore
    /\ IdleForm

DetermineWinner ==
    /\ cmpOut = <<>>
    /\ cmpOut' = << determineWinner(cmpIn.resultsA, cmpIn.resultsB, cmpIn.timeframe) >>
    /\ UNCHANGED <<cmpIn, amVars, simVars, goalVars, calcVars, storeVars, formVars>>

NextWinner == DetermineWinner

SpecWinner == InitWinner /\ [][NextWinner]_vars

----------------------------------------------------------------------------
(* Specification of the scenario comparison: the arguments of              *)
(* runComprehensiveComparison are drawn in Init.                           *)

\* The three loans above and a wealthier buyer of the two-year loan.
CmpScenarios ==
    { TwoYearLoan, OneYearLoan, CostlyLoan,
      handleCalculate(PropertyForm(5 * Unit, 20, 0, 2), IncomeForm(240000, 0, 200000)) }

CmpInputs ==
    { in \in [scenarioA : CmpScenarios,
              scenarioB : CmpScenarios,
              otherExpenses : {2500},
              savingsRate : {50},
              investmentReturn : {0, 1200},
              appreciationRate : {0, 100},
              timeframe : 1 .. MaxYears] :
        in.investmentReturn = 0 \/ in.timeframe = 1 }

InitCmp ==
    /\ cmpIn \in CmpInputs
    /\ cmpOut = <<>>
    /\ IdleAm
    /\ IdleSim
    /\ IdleGoal
    /\ IdleCalc
    /\ IdleStore
    /\ IdleForm

RunComprehensiveComparison ==
    /\ cmpOut = <<>>
    /\ cmpOut' = << runComprehensiveComparison(cmpIn.scenarioA, cmpIn.scenarioB,
                        cmpIn.otherExpenses, cmpIn.savingsRate, cmpIn.investmentReturn,
                        cmpIn.appreciationRate, cmpIn.timeframe) >>
    /\ UNCHANGED <<cmpIn, amVars, simVars, goalVars, calcVars, storeVars, formVars>>

NextCmp == RunComprehensiveComparison

SpecCmp == InitCmp /\ [][NextCmp]_vars

----------------------------------------------------------------------------
(* Specification of the goal-seek solver: the arguments are drawn in Init. *)

GoalInputs ==
    [startingAmount : {0, 1000, 5000},
     monthlyContribution : {-100, 0, 1, 100},
     annualReturn : {-1200, 0, 1200},
     goalAmount : {0, 1000, 1199, 1200, 2000, 200000}]

InitGoal ==
    /\ goalIn \in GoalInputs
    /\ goalPc = "call"
    /\ goalBalance = 0
    /\ goalMonths = 0
    /\ goalResult = <<>>
    /\ IdleAm
    /\ IdleSim
    /\ IdleCmp
    /\ IdleCalc
    /\ IdleStore
    /\ IdleForm

\* Entry of calculateYearsToGoal: an early return, or the loop's initial state.
YearsToGoalEnter ==
    /\ goalPc = "call"
    /\ LET entry == YearsToGoalEntry(goalIn.startingAmount, goalIn.monthlyContribution,
                                     goalIn.goalAmount)
       IN  \/ /\ entry = "zero"
              /\ goalResult' = << Years(0) >>
              /\ goalPc' = "done"
              /\ UNCHANGED <<goalBalance, goalMonths>>
           \/ /\ entry = "never"
              /\ goalResult' = << Never >>
              /\ goalPc' = "done"
              /\ UNCHANGED <<goalBalance, goalMonths>>
           \/ /\ entry = "loop"
              /\ goalBalance' = goalIn.startingAmount
              /\ goalMonths' = 0
              /\ goalPc' = "loop"
              /\ UNCHANGED goalResult
    /\ UNCHANGED <<goalIn, amVars, simVars, cmpVars, calcVars, storeVars, formVars>>

\* One iteration of while (balance < goalAmount && months < maxMonths).
YearsToGoalIterate ==
    /\ goalPc = "loop"
    /\ goalBalance < goalIn.goalAmount
    /\ goalMonths < MaxMonths
    /\ goalBalance' = (goalBalance + goalIn.monthlyContribution)
                         * (1 + MonthlyRate(goalIn.annualReturn))
    /\ goalMonths' = goalMonths + 1
    /\ UNCHANGED <<goalIn, goalPc, goalResult, amVars, simVars, cmpVars, calcVars,
                   storeVars, formVars>>

\* Loop exit and return.
YearsToGoalReturn ==
    /\ goalPc = "loop"
    /\ ~(goalBalance < goalIn.goalAmount /\ goalMonths < MaxMonths)
    /\ goalResult' = << YearsToGoalReturnValue(goalMonths) >>
    /\ goalPc' = "done"
    /\ UNCHANGED <<goalIn, goalBalance, goalMonths, amVars, simVars, cmpVars, calcVars,
                   storeVars, formVars>>

NextGoal == YearsToGoalEnter \/ YearsToGoalIterate \/ YearsToGoalReturn

SpecGoal == InitGoal /\ [][NextGoal]_vars

\* The call is a synchronous loop: a step that can be taken is taken.
SpecGoalFair == SpecGoal /\ WF_vars(NextGoal)

----------------------------------------------------------------------------
(* Specification of the calculator functions: the function called and its  *)
(* arguments are drawn in Init, each action is one call.                    *)

\* A monthly return of 1 doubles the value every month: it is drawn for one
\* year, and for two years on amounts of at most 1.
GrowthInputs ==
    { in \in [fn : {"growth"},
              initialAmount : {-1000, 0, 1000},
              monthlyContribution : {-100, 0, 100},
              annualReturn : {-1200, 0, 1200},
              years : 0 .. MaxYears] :
        in.annualReturn <= 0 \/ in.years <= 1 }
    \cup [fn : {"growth"},
          initialAmount : {-1, 0, 1},
          monthlyContribution : {0, 1},
          annualReturn : {1200},
          years : {2}]

\* Loan amounts whose insurance is a whole number of dollars.
PMIInputs ==
    [fn : {"pmi"},
     loanAmount : {-1600, 0, 1600, 160000, 320000},
     purchasePrice : {0, 200000, 400000},
     downPaymentPercent : {0, 5, 19, 20, 21, 100}]

AffordabilityInputs ==
    [fn : {"affordability"},
     monthlyPayment : {2000, 2500, 3000, 3300, 3400, 4000, 4100},
     monthlyIncome : {10000},
     otherDebtPayments : {0, 500, 1000, 1100}]

\* Equity projections of a home of 5 units whose price doubles, stays or
\* drops to 0 in a year; a loan at a monthly rate of 1 runs for one year.
EquityInputs ==
    { in \in [fn : {"equity"},
              purchasePrice : {5 * Unit},
              principal : {0, Unit, 4 * Unit, 5 * Unit},
              rate : {0, 1200},
              years : 0 .. MaxTerm,
              appreciationRate : {-100, 0, 100}] :
        in.rate = 0 \/ in.years <= 1 }

InitCalc ==
    /\ \/ calcIn \in GrowthInputs
       \/ calcIn \in EquityInputs
       \/ calcIn \in PMIInputs
       \/ calcIn \in AffordabilityInputs
    /\ calcOut = <<>>
    /\ IdleAm
    /\ IdleSim
    /\ IdleCmp
    /\ IdleGoal
    /\ IdleStore
    /\ IdleForm

CalculateInvestmentGrowth ==
    /\ calcIn.fn = "growth"
    /\ calcOut = <<>>
    /\ calcOut' = << calculateInvestmentGrowth(calcIn.initialAmount,
                        calcIn.monthlyContribution, calcIn.annualReturn, calcIn.years) >>
    /\ UNCHANGED <<calcIn, amVars, simVars, cmpVars, goalVars, storeVars, formVars>>

CalculatePMI ==
    /\ calcIn.fn = "pmi"
    /\ calcOut = <<>>
    /\ calcOut' = << calculatePMI(calcIn.loanAmount, calcIn.purchasePrice,
                                  calcIn.downPaymentPercent) >>
    /\ UNCHANGED <<calcIn, amVars, simVars, cmpVars, goalVars, storeVars, formVars>>

CalculateAffordabilityRatios ==
    /\ calcIn.fn = "affordability"
    /\ calcOut = <<>>
    /\ calcOut' = << calculateAffordabilityRatios(calcIn.monthlyPayment,
                        calcIn.monthlyIncome, calcIn.otherDebtPayments) >>
    /\ UNCHANGED <<calcIn, amVars, simVars, cmpVars, goalVars, storeVars, formVars>>

CalculateEquityOverTime ==
    /\ calcIn.fn = "equity"
    /\ calcOut = <<>>
    /\ calcOut' = << calculateEquityOverTime(calcIn.purchasePrice, calcIn.principal,
                        calcIn.rate, calcIn.years, calcIn.appreciationRate) >>
    /\ UNCHANGED <<calcIn, amVars, simVars, cmpVars, goalVars, storeVars, formVars>>

NextCalc ==
    \/ CalculateInvestmentGrowth
    \/ CalculatePMI
    \/ CalculateAffordabilityRatios
    \/ CalculateEquityOverTime

SpecCalc == InitCalc /\ [][NextCalc]_vars

----------------------------------------------------------------------------
(* Scenario store.  localStorage holds the JSON text of the scenario list; *)
(* JSON.stringify followed by JSON.parse gives these records back: their   *)
(* fields are strings, numbers and plain objects, and a field that is      *)
(* undefined (<<>> below) is left out by the one and read as undefined     *)
(* after the other.  A name is the tuple of its characters.  The timestamp *)
(* saveScenario writes is left out of the records.                         *)

RECURSIVE TrimStart(_)
TrimStart(name) ==
    IF name # <<>> /\ Head(name) = " " THEN TrimStart(Tail(name)) ELSE name

RECURSIVE TrimEnd(_)
TrimEnd(name) ==
    IF name # <<>> /\ name[Len(name)] = " "
    THEN TrimEnd(SubSeq(name, 1, Len(name) - 1))
    ELSE name

\* String.prototype.trim
Trim(name) == TrimEnd(TrimStart(name))

\* Mutant: the loan term is not validated.
validateScenario_AnyLoanTerm(scenario) ==
    LET nameErrors ==
            IF scenario.name = <<>> \/ Trim(scenario.name) = <<>>
            THEN <<"Scenario name is required">> ELSE <<>>
        propertyErrors ==
            IF scenario.propertyInfo = <<>>
            THEN <<"Property information is missing">>
            ELSE LET propertyInfo == scenario.propertyInfo[1]
                 IN  (IF propertyInfo.purchasePrice <= 0
                      THEN <<"Purchase price must be greater than 0">> ELSE <<>>)
                     \o (IF propertyInfo.downPaymentPercent < 0
                            \/ propertyInfo.downPaymentPercent > 100
                         THEN <<"Down payment percent must be between 0 and 100">>
                         ELSE <<>>)
                     \o (IF propertyInfo.interestRate < 0
                         THEN <<"Interest rate cannot be negative">> ELSE <<>>)
        incomeErrors ==
            IF scenario.incomeInfo = <<>>
            THEN <<"Income information is missing">>
            ELSE IF scenario.incomeInfo[1].annualIncome <= 0
                 THEN <<"Annual income must be greater than 0">> ELSE <<>>
        errors == nameErrors \o propertyErrors \o incomeErrors
    IN  [valid |-> Len(errors) = 0, errors |-> errors]

validateScenario(scenario) ==
    LET nameErrors ==
            IF scenario.name = <<>> \/ Trim(scenario.name) = <<>>
            THEN <<"Scenario name is required">> ELSE <<>>
        propertyErrors ==
            IF scenario.propertyInfo = <<>>
            THEN <<"Property information is missing">>
            ELSE LET propertyInfo == scenario.propertyInfo[1]
                 IN  (IF propertyInfo.purchasePrice <= 0
                      THEN <<"Purchase price must be greater than 0">> ELSE <<>>)
                     \o (IF propertyInfo.downPaymentPercent < 0
                            \/ propertyInfo.downPaymentPercent > 100
                         THEN <<"Down payment percent must be between 0 and 100">>
                         ELSE <<>>)
                     \o (IF propertyInfo.interestRate < 0
                         THEN <<"Interest rate cannot be negative">> ELSE <<>>)
                     \o (IF propertyInfo.loanTerm <= 0
                         THEN <<"Loan term must be greater than 0">> ELSE <<>>)
        incomeErrors ==
            IF scenario.incomeInfo = <<>>
            THEN <<"Income information is missing">>
            ELSE IF scenario.incomeInfo[1].annualIncome <= 0
                 THEN <<"Annual income must be greater than 0">> ELSE <<>>
        errors == nameErrors \o propertyErrors \o incomeErrors
    IN  [valid |-> Len(errors) = 0, errors |-> errors]

\* list.findIndex(s => s.id === id), counted from 1: 0 stands for -1.
FindIndexById(list, id) ==
    IF \E i \in 1 .. Len(list) : list[i].id = id
    THEN CHOOSE i \in 1 .. Len(list) :
            /\ list[i].id = id
            /\ \A j \in 1 .. i - 1 : list[j].id # id
    ELSE 0

\* Mutant: the scenario is pushed whether or not its id is stored already.
saveScenario_AlwaysPush(list, scenario, uuid) ==
    Append(list, IF scenario.id = <<>> THEN [scenario EXCEPT !.id = <<uuid>>]
                 ELSE scenario)

\* The list saveScenario writes; uuid is what generateUUID() would return.
saveScenario(list, scenario, uuid) ==
    LET existingIndex == FindIndexById(list, scenario.id)
    IN  IF existingIndex >= 1
        THEN [list EXCEPT ![existingIndex] = scenario]
        ELSE Append(list, IF scenario.id = <<>>
                          THEN [scenario EXCEPT !.id = <<uuid>>]
                          ELSE scenario)

\* scenarios.filter(s => s.id !== id)
deleteScenario(list, id) == SelectSeq(list, LAMBDA s : s.id # <<id>>)

\* { ...scenario, ...updates }: a key of updates is <<>> when absent.
MergeUpdates(scenario, updates) ==
    [scenario EXCEPT !.name = IF updates.name = <<>> THEN @ ELSE updates.name[1],
                     !.id = IF updates.id = <<>> THEN @ ELSE updates.id[1]]

RECURSIVE MergeImported(_, _, _, _)
\* The merge loop of importFromJSON over the scenarios not yet merged.
MergeImported(mergedScenarios, importedScenarios, newCount, updatedCount) ==
    IF importedScenarios = <<>>
    THEN [mergedScenarios |-> mergedScenarios,
          newCount |-> newCount,
          updatedCount |-> updatedCount]
    ELSE LET imported == Head(importedScenarios)
             existingIndex == FindIndexById(mergedScenarios, imported.id)
         IN  IF existingIndex >= 1
             THEN MergeImported([mergedScenarios EXCEPT ![existingIndex] = imported],
                                Tail(importedScenarios), newCount, updatedCount + 1)
             ELSE MergeImported(Append(mergedScenarios, imported),
                                Tail(importedScenarios), newCount + 1, updatedCount)

\* What importFromJSON returns and the list it leaves in localStorage.
importFromJSON(list, input) ==
    IF input.kind # "array"
       \/ \E i \in 1 .. Len(input.items) : ~validateScenario(input.items[i]).valid
    THEN [success |-> FALSE, newCount |-> 0, updatedCount |-> 0, stored |-> list]
    ELSE LET merge == MergeImported(list, input.items, 0, 0)
         IN  [success |-> TRUE,
              newCount |-> merge.newCount,
              updatedCount |-> merge.updatedCount,
              stored |-> merge.mergedScenarios]

(* Specification of the store *)

StoredIds(list) == { list[i].id : i \in 1 .. Len(list) }

\* Ids generateUUID() can return: one not stored yet.
UUIDs == {"u1"}
CallerIds == {"a"}

HomeInfo == [purchasePrice |-> 300000, downPaymentPercent |-> 100,
             interestRate |-> 6, loanTerm |-> 30]
FlatInfo == [purchasePrice |-> 1, downPaymentPercent |-> 0,
             interestRate |-> 0, loanTerm |-> 1]
Income == [annualIncome |-> 100000]
Home(id) == [id |-> id, name |-> <<"H">>, propertyInfo |-> <<HomeInfo>>,
             incomeInfo |-> <<Income>>]
Flat(id) == [id |-> id, name |-> <<"F">>, propertyInfo |-> <<FlatInfo>>,
             incomeInfo |-> <<Income>>]

\* Scenarios handed to saveScenario: with the caller's id or without one.
SaveChoices == { Home(<<>>), Home(<<"a">>) }

\* updates of updateScenario: a new name, or another id.
UpdateChoices == { [name |-> << <<"F">> >>, id |-> <<>>],
                   [name |-> <<>>, id |-> << <<"u1">> >>] }

ValidImports == { Flat(<<"a">>), Home(<<"a">>), Flat(<<>>) }

\* One rule of validateScenario broken in each.
InvalidImports ==
    { [Home(<<"a">>) EXCEPT !.name = <<>>],
      [Home(<<"a">>) EXCEPT !.name = <<" ", " ">>],
      [Home(<<"a">>) EXCEPT !.propertyInfo[1].purchasePrice = 0],
      [Home(<<"a">>) EXCEPT !.propertyInfo[1].downPaymentPercent = -1],
      [Home(<<"a">>) EXCEPT !.propertyInfo[1].downPaymentPercent = 101],
      [Home(<<"a">>) EXCEPT !.propertyInfo[1].interestRate = -1],
      [Home(<<"a">>) EXCEPT !.propertyInfo[1].loanTerm = 0],
      [Home(<<"a">>) EXCEPT !.incomeInfo[1].annualIncome = 0],
      [Home(<<"a">>) EXCEPT !.propertyInfo = <<>>],
      [Home(<<"a">>) EXCEPT !.incomeInfo = <<>>] }

RECURSIVE Repeat(_, _)
Repeat(x, n) == IF n = 0 THEN <<>> ELSE <<x>> \o Repeat(x, n - 1)

\* The arrays of at most n valid scenarios, and those of one scenario that
\* breaks a rule, alone, before or after a valid one.
ImportArrays(n) ==
    SeqsUpTo(ValidImports, n)
    \cup { Repeat(Flat(<<"u1">>), pad[1]) \o <<invalid>> \o Repeat(Flat(<<"u1">>), pad[2]) :
             invalid \in InvalidImports,
             pad \in { <<0, 0>>, <<1, 0>>, <<0, 1>> } }

\* The text handed to importFromJSON: not JSON, JSON of an object, or JSON
\* of an array of scenarios.
ImportInputs(n) ==
    { [kind |-> "malformed", items |-> <<>>], [kind |-> "object", items |-> <<>>] }
    \cup { [kind |-> "array", items |-> items] : items \in ImportArrays(n) }

InitStore ==
    /\ IdleStore
    /\ IdleAm
    /\ IdleSim
    /\ IdleCmp
    /\ IdleGoal
    /\ IdleCalc
    /\ IdleForm

\* The arguments of a store call; those the call does not take are empty.
Arguments(id, scenario, updates, input) ==
    [id |-> id, scenario |-> scenario, updates |-> updates, input |-> input]

Returned(success, newCount, updatedCount) ==
    [success |-> success, newCount |-> newCount, updatedCount |-> updatedCount]

StoreCall(op, arguments, returned) ==
    << [op |-> op, arguments |-> arguments, returned |-> returned] >>

SaveScenario(scenario) ==
    /\ \E uuid \in (IF FindIndexById(scenarios, scenario.id) = 0 /\ scenario.id = <<>>
                    THEN { u \in UUIDs : <<u>> \notin StoredIds(scenarios) }
                    ELSE {"unused"}) :
          scenarios' = saveScenario(scenarios, scenario, uuid)
    /\ storeResult' = StoreCall("saveScenario",
                                Arguments("", <<scenario>>, <<>>, <<>>),
                                Returned(TRUE, 0, 0))
    /\ UNCHANGED <<amVars, simVars, cmpVars, goalVars, calcVars, formVars>>

DeleteScenario(id) ==
    /\ LET filtered == deleteScenario(scenarios, id)
       IN  IF Len(filtered) = Len(scenarios)
           THEN /\ storeResult' = StoreCall("deleteScenario",
                                            Arguments(id, <<>>, <<>>, <<>>),
                                            Returned(FALSE, 0, 0))
                /\ UNCHANGED scenarios
           ELSE /\ scenarios' = filtered
                /\ storeResult' = StoreCall("deleteScenario",
                                            Arguments(id, <<>>, <<>>, <<>>),
                                            Returned(TRUE, 0, 0))
    /\ UNCHANGED <<amVars, simVars, cmpVars, goalVars, calcVars, formVars>>

\* getScenario(id), then saveScenario of the merged scenario.
UpdateScenario(id, updates) ==
    /\ LET index == FindIndexById(scenarios, <<id>>)
       IN  IF index = 0
           THEN /\ storeResult' = StoreCall("updateScenario",
                                            Arguments(id, <<>>, <<updates>>, <<>>),
                                            Returned(FALSE, 0, 0))
                /\ UNCHANGED scenarios
           ELSE /\ scenarios' = saveScenario(scenarios,
                                    MergeUpdates(scenarios[index], updates), "unused")
                /\ storeResult' = StoreCall("updateScenario",
                                            Arguments(id, <<>>, <<updates>>, <<>>),
                                            Returned(TRUE, 0, 0))
    /\ UNCHANGED <<amVars, simVars, cmpVars, goalVars, calcVars, formVars>>

ImportFromJSON(input) ==
    /\ LET result == importFromJSON(scenarios, input)
       IN  /\ scenarios' = result.stored
           /\ storeResult' = StoreCall("importFromJSON",
                                       Arguments("", <<>>, <<>>, <<input>>),
                                       Returned(result.success, result.newCount,
                                                result.updatedCount))
    /\ UNCHANGED <<amVars, simVars, cmpVars, goalVars, calcVars, formVars>>

NextStore ==
    \/ \E scenario \in SaveChoices : SaveScenario(scenario)
    \/ \E id \in CallerIds \cup UUIDs : DeleteScenario(id)
    \/ \E id \in CallerIds \cup UUIDs, updates \in UpdateChoices :
          UpdateScenario(id, updates)
    \/ \E input \in ImportInputs(MaxImported) : ImportFromJSON(input)

SpecStore == InitStore /\ [][NextStore]_vars

----------------------------------------------------------------------------
(* Life-events form.  appLifeEvents is appState.lifeEvents; formRows are   *)
(* the rows of #life-events-table, row i holding what the inputs           *)
(* event-year-i, event-desc-i, event-type-i and event-amount-i show.  The  *)
(* numbers typed are whole, so the text of a number input is represented   *)
(* by the number parseInt and parseFloat read from it.  Rows and events    *)
(* are counted from 1 here, the index of removeLifeEvent from 0.           *)

\* The event addLifeEvent pushes, and the values of the row it inserts.
DefaultLifeEvent == [year |-> 5, description |-> "", type |-> "one-time", amount |-> 10000]

\* The row the template of removeLifeEvent renders for an event.
RenderRow(event) ==
    [year |-> event.year, description |-> event.description,
     type |-> event.type, amount |-> event.amount]

\* appState.lifeEvents.map(...): the inputs of row i when they exist, else the event.
getLifeEventsFromForm ==
    [i \in 1 .. Len(appLifeEvents) |->
        IF i <= Len(formRows)
        THEN [year |-> formRows[i].year,
              description |-> formRows[i].description,
              type |-> formRows[i].type,
              amount |-> formRows[i].amount]
        ELSE appLifeEvents[i]]

(* Specification of the form *)

\* What the user types or selects in a row.
EnteredYears == {1, 3}
EnteredDescriptions == {"Wedding"}
EnteredTypes == {"one-time", "ongoing", "income"}
EnteredAmounts == {2500}

InitForm ==
    /\ IdleForm
    /\ IdleAm
    /\ IdleSim
    /\ IdleCmp
    /\ IdleGoal
    /\ IdleCalc
    /\ IdleStore

AddLifeEvent ==
    /\ Len(appLifeEvents) < MaxRows
    /\ formRows' = Append(formRows, RenderRow(DefaultLifeEvent))
    /\ appLifeEvents' = Append(appLifeEvents, DefaultLifeEvent)
    /\ UNCHANGED <<amVars, simVars, cmpVars, goalVars, calcVars, storeVars>>

\* The user changes one input of row i; no handler is attached to the inputs.
EditLifeEvent(i) ==
    /\ i \in 1 .. Len(formRows)
    /\ \/ \E year \in EnteredYears : formRows' = [formRows EXCEPT ![i].year = year]
       \/ \E description \in EnteredDescriptions :
             formRows' = [formRows EXCEPT ![i].description = description]
       \/ \E type \in EnteredTypes : formRows' = [formRows EXCEPT ![i].type = type]
       \/ \E amount \in EnteredAmounts : formRows' = [formRows EXCEPT ![i].amount = amount]
    /\ UNCHANGED <<appLifeEvents, amVars, simVars, cmpVars, goalVars, calcVars, storeVars>>

\* The Remove button of row index + 1: splice, then the table is rendered anew.
RemoveLifeEvent(index) ==
    /\ index \in 0 .. Len(appLifeEvents) - 1
    /\ appLifeEvents' = Splice(appLifeEvents, index)
    /\ formRows' = [i \in 1 .. Len(appLifeEvents') |-> RenderRow(appLifeEvents'[i])]
    /\ UNCHANGED <<amVars, simVars, cmpVars, goalVars, calcVars, storeVars>>

NextForm ==
    \/ AddLifeEvent
    \/ \E i \in 1 .. MaxRows : EditLifeEvent(i)
    \/ \E index \in 0 .. MaxRows - 1 : RemoveLifeEvent(index)

SpecForm == InitForm /\ [][NextForm]_vars

----------------------------------------------------------------------------
(* Properties of the amortization engine *)

RECURSIVE SumPrincipalIn(_, _, _)
SumPrincipalIn(rows, lo, hi) ==
    IF lo > hi THEN 0
    ELSE IF lo = hi THEN rows[lo].principal
    ELSE LET mid == (lo + hi) \div 2
         IN  SumPrincipalIn(rows, lo, mid) + SumPrincipalIn(rows, mid + 1, hi)

SumPrincipal(rows) == SumPrincipalIn(rows, 1, Len(rows))

\* C4 (as claimed): with principal <= 0 or termYears <= 0 the monthly payment
\* is 0 and the generated schedule has no rows.
C4_EmptyForNonPositive ==
    (amIn.principal <= 0 \/ amIn.years <= 0) =>
        /\ (amPayment # <<>> => amPayment[1] = 0)
        /\ (amGenerated => amSchedule = <<>>)

\* C5: for principal > 0, rate >= 0 and term > 0 the schedule has term*12
\* rows, every balance is >= 0, the balance never increases from one row to
\* the next (nor from the principal to the first row), the last balance is 0
\* and the principal components sum to the principal.
C5_AmortizationTerminus ==
    (amGenerated /\ amIn.principal > 0 /\ amIn.annualRate >= 0 /\ amIn.years > 0) =>
        /\ Len(amSchedule) = amIn.years * 12
        /\ \A i \in 1 .. Len(amSchedule) :
              /\ amSchedule[i].balance >= 0
              /\ amSchedule[i].balance <=
                    (IF i = 1 THEN amIn.principal ELSE amSchedule[i - 1].balance)
        /\ amSchedule[Len(amSchedule)].balance = 0
        /\ SumPrincipal(amSchedule) = amIn.principal

C5_Witness ==
    /\ amGenerated
    /\ amIn.principal = 2 * Unit
    /\ amIn.annualRate = 1200
    /\ amIn.years = 1
    /\ Len(amSchedule) = 12
    /\ amSchedule[1].interest = 2 * Unit
    /\ amSchedule[11].balance > 0

\* C6: at a rate of exactly 0 (valid loan: principal > 0, term > 0) the
\* schedule has term*12 rows, each with payment principal/(term*12),
\* interest 0 and principal component equal to the payment.
C6_ZeroRateStraightLine ==
    (amIn.annualRate = 0 /\ amIn.principal > 0 /\ amIn.years > 0) =>
        /\ (amPayment # <<>> =>
               amPayment[1] * (amIn.years * 12) = amIn.principal)
        /\ (amGenerated =>
               /\ Len(amSchedule) = amIn.years * 12
               /\ \A i \in 1 .. Len(amSchedule) :
                     /\ amSchedule[i].payment * (amIn.years * 12) = amIn.principal
                     /\ amSchedule[i].interest = 0
                     /\ amSchedule[i].principal = amSchedule[i].payment)

\* amortize(24000, 0, 2): 24 payments of 1000.
C6_Witness ==
    /\ amGenerated
    /\ amIn = [principal |-> 24000, annualRate |-> 0, years |-> 2]
    /\ Len(amSchedule) = 24
    /\ amSchedule[24].payment = 1000
    /\ amPayment = <<1000>>

----------------------------------------------------------------------------
(* Properties of the simulator and the equity projection it embeds *)

RemoveAt(seq, k) == SubSeq(seq, 1, k - 1) \o SubSeq(seq, k + 1, Len(seq))

\* The run of the current arguments with life event k left out.
RunWithoutEvent(k) ==
    calculateBuyVsRent(incomeAdjustments, simIn.scenario, simIn.initialRent,
                       simIn.rentIncrease, simIn.years, simIn.annualRaise,
                       simIn.baseExpenses, simIn.savingsRate,
                       RemoveAt(simIn.lifeEvents, k), simIn.investmentReturn,
                       simIn.appreciationRate)

\* C1 (as claimed): an ongoing life event of amount a in year y raises the
\* recorded monthlyExpenses by a/12 in every year from y (inclusive) to the
\* end of the horizon, in the buy records and in the rent records, compared
\* with the same run without the event.
C1_OngoingRaisesFromEventYear ==
    simOut # <<>> =>
        \A k \in 1 .. Len(simIn.lifeEvents) :
            simIn.lifeEvents[k].type = "ongoing" =>
                \A yr \in simIn.lifeEvents[k].year .. simIn.years :
                    /\ simOut[1].buy[yr].monthlyExpenses =
                          RunWithoutEvent(k).buy[yr].monthlyExpenses
                            + simIn.lifeEvents[k].amount \div 12
                    /\ simOut[1].rent[yr].monthlyExpenses =
                          RunWithoutEvent(k).rent[yr].monthlyExpenses
                            + simIn.lifeEvents[k].amount \div 12

\* C2 (as claimed): for y <= min(horizon, T) the loanBalance and the equity of
\* year y are those of the loan amortized over its full term T, whatever the
\* horizon.
C2_BalanceFromFullTermSchedule ==
    simOut # <<>> =>
        LET scenario == simIn.scenario
            term == scenario.propertyInfo.loanTerm
            full == calculateEquityOverTime(scenario.propertyInfo.purchasePrice,
                                            scenario.calculations.loanAmount,
                                            scenario.propertyInfo.interestRate,
                                            term, simIn.appreciationRate)
            schedule == generateAmortizationSchedule(scenario.calculations.loanAmount,
                                                     scenario.propertyInfo.interestRate,
                                                     term)
        IN  \A y \in 1 .. Min(simIn.years, term) :
                /\ simOut[1].equityData[y].loanBalance = schedule[12 * y].balance
                /\ simOut[1].buy[y].equity = full[y].equity

----------------------------------------------------------------------------
(* Properties of the comparator *)

\* netWorthA - netWorthB in the 1-based year y, as determineWinner reads it
\* (a year past the end of a series reads as 0).
NetWorthGap(y) ==
    TotalNetWorthAt(cmpIn.resultsA.netWorthData, y)
        - TotalNetWorthAt(cmpIn.resultsB.netWorthData, y)

SignFlipYears ==
    { y \in 2 .. cmpIn.timeframe :
        \/ (NetWorthGap(y - 1) < 0 /\ NetWorthGap(y) >= 0)
        \/ (NetWorthGap(y - 1) > 0 /\ NetWorthGap(y) <= 0) }

NetWorthInYear(results, year) ==
    results.portfolioData[year].value
      + (IF year <= Len(results.equityData)
         THEN results.equityData[year].equity
         ELSE results.scenario.propertyInfo.purchasePrice
                * Pow(1 + (cmpIn.appreciationRate \div 100), year))

\* C8 (as claimed): the winner is the scenario with the larger net worth in
\* the last year of the timeframe, also when the timeframe exceeds a loan
\* term, and difference is the absolute difference of the two.
C8_WinnerHasLargerFinalNetWorth ==
    cmpOut # <<>> =>
        LET finalA == NetWorthInYear(cmpOut[1].scenarioA, cmpIn.timeframe)
            finalB == NetWorthInYear(cmpOut[1].scenarioB, cmpIn.timeframe)
        IN  /\ (finalA > finalB => cmpOut[1].winner.winner = "A")
            /\ (finalB > finalA => cmpOut[1].winner.winner = "B")
            /\ cmpOut[1].winner.difference = Abs(finalA - finalB)

\* C9 (as claimed): with exactly equal finalNetWorth the winner is "A".
C9_TieGoesToA ==
    (cmpOut # <<>> /\ cmpOut[1].scenarioA.finalNetWorth = cmpOut[1].scenarioB.finalNetWorth)
        => cmpOut[1].winner.winner = "A"

----------------------------------------------------------------------------
(* Properties of the goal-seek solver *)

\* C10: once called, calculateYearsToGoal returns 0 when startingAmount >=
\* goalAmount (any contribution, any rate) and the never value (not a year
\* count) when startingAmount < goalAmount and monthlyContribution <= 0; in
\* both cases it returns at once, the loop is never entered.
C10_EarlyReturns ==
    /\ (goalPc \in {"loop", "done"} /\ goalIn.startingAmount >= goalIn.goalAmount) =>
           /\ goalPc = "done"
           /\ goalResult = << Years(0) >>
           /\ goalMonths = 0
    /\ (goalPc \in {"loop", "done"} /\ goalIn.startingAmount < goalIn.goalAmount
           /\ goalIn.monthlyContribution <= 0) =>
           /\ goalPc = "done"
           /\ goalResult = << Never >>
           /\ ~goalResult[1].finite
           /\ goalMonths = 0

\* Interest alone would reach the goal (1000 doubling monthly), but nothing is
\* contributed: never.
C10_Witness ==
    /\ goalPc = "done"
    /\ goalIn = [startingAmount |-> 1000, monthlyContribution |-> 0,
                 annualReturn |-> 1200, goalAmount |-> 2000]
    /\ goalResult = << Never >>

\* C11 (as claimed): for startingAmount < goalAmount and monthlyContribution >
\* 0 the loop adds the contribution, then grows the balance, month by month;
\* when the balance first meets the goal in month m <= 1200 the result is
\* ceil(m / 12), and the result is the never value exactly when the balance
\* is still below the goal after 1200 months.
C11_CeilOfFirstMonth ==
    (goalPc = "done" /\ goalIn.startingAmount < goalIn.goalAmount
        /\ goalIn.monthlyContribution > 0) =>
        IF goalBalance >= goalIn.goalAmount
        THEN /\ goalMonths \in 1 .. MaxMonths
             /\ goalResult = << Years((goalMonths + 11) \div 12) >>
        ELSE /\ goalMonths = MaxMonths
             /\ goalResult = << Never >>

\* C12: calculateYearsToGoal terminates on every input: the loop body runs at
\* most 1200 times, the call returns, and a finite result lies in 0..100.
C12_TerminatesWithinCap ==
    /\ [](/\ goalMonths \in 0 .. MaxMonths
          /\ (goalResult # <<>> /\ goalResult[1].finite) =>
                 goalResult[1].years \in 0 .. 100)
    /\ <>(goalPc = "done" /\ goalResult # <<>>)

\* A balance that every month's loss wipes out: the cap ends the loop.
C12_Witness ==
    /\ goalPc = "done"
    /\ goalIn.annualReturn = -1200
    /\ goalIn.monthlyContribution = 100
    /\ goalIn.goalAmount = 2000
    /\ goalMonths = MaxMonths
    /\ goalBalance = 0
    /\ goalResult = << Never >>

----------------------------------------------------------------------------
(* Properties of the calculator functions *)

\* n months of v := (v + c) * factor, the contribution added before the
\* month's growth.
RECURSIVE Compound(_, _, _, _)
Compound(v, c, factor, n) ==
    IF n = 0 THEN v ELSE Compound((v + c) * factor, c, factor, n - 1)

GrowthReturned == calcIn # <<>> /\ calcIn.fn = "growth" /\ calcOut # <<>>

\* value never falls from one snapshot to the next and gains are >= 0
SnapshotsMonotone(rows) ==
    \A y \in 1 .. Len(rows) :
        /\ rows[y].gains >= 0
        /\ (y > 1 => rows[y].value >= rows[y - 1].value)

\* C13 (as claimed): for annualReturn >= 0 and monthlyContribution >= 0,
\* whatever the initial amount (negative ones are permitted inputs), value is
\* non-decreasing from snapshot to snapshot and gains are non-negative.
C13_MonotoneForAnyInitial ==
    (GrowthReturned /\ calcIn.annualReturn >= 0 /\ calcIn.monthlyContribution >= 0) =>
        SnapshotsMonotone(calcOut[1])

\* C13 (amended): the same for annualReturn >= 0, monthlyContribution >= 0
\* and initialAmount >= 0.
C13_MonotoneForNonNegativeInitial ==
    (GrowthReturned /\ calcIn.annualReturn >= 0 /\ calcIn.monthlyContribution >= 0
        /\ calcIn.initialAmount >= 0) =>
        SnapshotsMonotone(calcOut[1])

\* Two years of doubling months on 1 + 1 a month: the value grows, gains > 0.
C13_Witness ==
    /\ GrowthReturned
    /\ calcIn.initialAmount = 1
    /\ calcIn.monthlyContribution = 1
    /\ calcIn.annualReturn = 1200
    /\ Len(calcOut[1]) = 2
    /\ calcOut[1][2].value > calcOut[1][1].value
    /\ calcOut[1][1].gains > 0

PMIReturned == calcIn # <<>> /\ calcIn.fn = "pmi" /\ calcOut # <<>>

\* C15: calculatePMI returns exactly 0 for every downPaymentPercent >= 20,
\* whatever the loan amount; below 20 it returns loanAmount * 0.0075 / 12,
\* which is > 0 for every loanAmount > 0; the purchase price (and with it any
\* equity) has no influence on the amount.
C15_PMIGating ==
    PMIReturned =>
        /\ (calcIn.downPaymentPercent >= 20 => calcOut[1] = 0)
        /\ (calcIn.downPaymentPercent < 20 =>
               /\ calcOut[1] * 12 * 10000 = calcIn.loanAmount * 75
               /\ (calcIn.loanAmount > 0 => calcOut[1] > 0))
        /\ \A price \in {0, 1, calcIn.loanAmount, 2 * calcIn.purchasePrice} :
               calculatePMI(calcIn.loanAmount, price, calcIn.downPaymentPercent)
                   = calcOut[1]

\* 20 % down on a loan of 160000 pays nothing, 19 % pays 100 a month.
C15_Witness ==
    /\ PMIReturned
    /\ calcIn.loanAmount = 160000
    /\ calcIn.downPaymentPercent = 20
    /\ calcOut = << 0 >>
    /\ calculatePMI(160000, calcIn.purchasePrice, 19) = 100

AffordabilityReturned ==
    calcIn # <<>> /\ calcIn.fn = "affordability" /\ calcOut # <<>>

----------------------------------------------------------------------------
(* Properties of the simulator's life events and starting balances *)

SimReturned == simIn # <<>> /\ simOut # <<>>

\* 1 + investmentReturn / 100 / 12 of the current run
GrowthFactor == 1 + (simIn.investmentReturn \div 1200)

BuyStart ==
    Max(0, simIn.scenario.incomeInfo.currentPortfolio
             - simIn.scenario.propertyInfo.downPaymentAmount)

RentStart == simIn.scenario.incomeInfo.currentPortfolio

\* The portfolio a series carries into the given year.
PortfolioBefore(rows, year, start) == IF year = 1 THEN start ELSE rows[year - 1].portfolio

\* The portfolio of the given year after its 12 months of add-then-grow.
GrownIn(rows, year, start) ==
    Compound(PortfolioBefore(rows, year, start), rows[year].monthlySavings,
             GrowthFactor, 12)

RECURSIVE AmountIn(_, _, _, _)
\* Sum of the amounts of the events of the given type and year, from event i on.
AmountIn(lifeEvents, type, year, i) ==
    IF i > Len(lifeEvents) THEN 0
    ELSE (IF lifeEvents[i].type = type /\ lifeEvents[i].year = year
          THEN lifeEvents[i].amount ELSE 0)
         + AmountIn(lifeEvents, type, year, i + 1)

\* C17: a one-time event of amount a in year y is deducted from the portfolio
\* of year y after that year's growth, floored at 0: the recorded portfolio is
\* max(0, g - deductions of the year) with g the grown portfolio, which is
\* max(0, p - a) for p the portfolio of the run without the event; the
\* records of years 1..y-1 and the monthlyExpenses of every year are those of
\* the run without the event (buy records and rent records).
C17_OneTimeAfterGrowth ==
    SimReturned =>
        \A k \in 1 .. Len(simIn.lifeEvents) :
            LET event == simIn.lifeEvents[k]
                y == event.year
                buy == simOut[1].buy
                rent == simOut[1].rent
                without == RunWithoutEvent(k)
            IN  (event.type = "one-time" /\ y <= simIn.years) =>
                  /\ buy[y].oneTimeExpense = without.buy[y].oneTimeExpense + event.amount
                  /\ buy[y].portfolio =
                        Max(0, GrownIn(buy, y, BuyStart) - buy[y].oneTimeExpense)
                  /\ rent[y].portfolio =
                        Max(0, GrownIn(rent, y, RentStart)
                                 - AmountIn(simIn.lifeEvents, "one-time", y, 1))
                  /\ buy[y].portfolio = Max(0, without.buy[y].portfolio - event.amount)
                  /\ rent[y].portfolio = Max(0, without.rent[y].portfolio - event.amount)
                  /\ \A yr \in 1 .. y - 1 :
                        /\ buy[yr] = without.buy[yr]
                        /\ rent[yr] = without.rent[yr]
                  /\ \A yr \in 1 .. simIn.years :
                        /\ buy[yr].monthlyExpenses = without.buy[yr].monthlyExpenses
                        /\ rent[yr].monthlyExpenses = without.rent[yr].monthlyExpenses

\* A 10000 expense in year 2 of three: the renter's portfolio of year 2 is
\* 10000 lower than it grew to, year 1 is untouched.
C17_Witness ==
    /\ SimReturned
    /\ simIn.years = 3
    /\ simIn.lifeEvents = << [year |-> 2, description |-> "", type |-> "one-time",
                              amount |-> 10000] >>
    /\ simOut[1].rent[2].portfolio = GrownIn(simOut[1].rent, 2, RentStart) - 10000
    /\ simOut[1].rent[2].portfolio > 0
    /\ simOut[1].buy[2].oneTimeExpense = 10000

\* The results on display say of every listed adjustment {year: y, income: v}
\* without an income event in year y: the income of year y is v, and the
\* income of year y + 1 is v raised once when no adjustment or income event
\* falls in year y + 1.
OverridesApplied ==
    \A i \in 1 .. Len(incomeAdjustments) :
        LET y == incomeAdjustments[i].year
            v == incomeAdjustments[i].income
            raise == 1 + (simIn.annualRaise \div 100)
        IN  (y <= simIn.years /\ AmountIn(simIn.lifeEvents, "income", y, 1) = 0) =>
              /\ simOut[1].buy[y].annualIncome = v
              /\ simOut[1].rent[y].annualIncome = v
              /\ (/\ y + 1 <= simIn.years
                  /\ FindAdjustment(incomeAdjustments, y + 1, 1) = <<>>
                  /\ AmountIn(simIn.lifeEvents, "income", y + 1, 1) = 0) =>
                    /\ simOut[1].buy[y + 1].annualIncome = v * raise
                    /\ simOut[1].rent[y + 1].annualIncome = v * raise

\* C18 (as claimed): whenever the analysis runs, each adjustment {year: y,
\* income: v} in the list, with no income event in year y, makes the recorded
\* income of year y exactly v (not v added to the raised income), and the
\* income of year y + 1 is v * (1 + annualRaise / 100) unless another
\* adjustment or event applies.
C18_AdjustmentOverrides == [][HandleUpdateAnalysis => OverridesApplied']_vars

\* No adjustment overrides the income of a year in lo..hi.
NoAdjustmentIn(lo, hi) ==
    \A i \in 1 .. Len(incomeAdjustments) : incomeAdjustments[i].year \notin lo .. hi

\* C19: an income event of amount a in year y raises the income of year y by
\* a, on top of the raise and of an override of that year; the monthlyIncome,
\* monthlyDiscretionary and monthlySavings recorded for year y are computed
\* from the increased income; and the increase stays: in each later year,
\* until an adjustment overrides the income, the income exceeds that of the
\* run without the event by a times the raises applied since year y.
C19_IncomeEventPermanent ==
    SimReturned =>
        \A k \in 1 .. Len(simIn.lifeEvents) :
            LET event == simIn.lifeEvents[k]
                y == event.year
                buy == simOut[1].buy
                rent == simOut[1].rent
                without == RunWithoutEvent(k)
                raise == 1 + (simIn.annualRaise \div 100)
                adj == FindAdjustment(incomeAdjustments, y, 1)
                savings(discretionary) ==
                    IF discretionary > 0
                    THEN (discretionary * simIn.savingsRate) \div 100 ELSE 0
            IN  (event.type = "income" /\ y <= simIn.years) =>
                  /\ buy[y].annualIncome = without.buy[y].annualIncome + event.amount
                  /\ rent[y].annualIncome = without.rent[y].annualIncome + event.amount
                  /\ adj # <<>> =>
                        buy[y].annualIncome =
                            adj[1].income + AmountIn(simIn.lifeEvents, "income", y, 1)
                  /\ buy[y].monthlyIncome * 12 = buy[y].annualIncome
                  /\ buy[y].monthlyDiscretionary =
                        buy[y].monthlyIncome - buy[y].monthlyExpenses
                  /\ buy[y].monthlySavings = savings(buy[y].monthlyDiscretionary)
                  /\ rent[y].monthlyDiscretionary * 12 =
                        rent[y].annualIncome - 12 * rent[y].monthlyExpenses
                  /\ rent[y].monthlySavings = savings(rent[y].monthlyDiscretionary)
                  /\ \A yr \in y + 1 .. simIn.years :
                        NoAdjustmentIn(y + 1, yr) =>
                          /\ buy[yr].annualIncome =
                                without.buy[yr].annualIncome
                                  + event.amount * Pow(raise, yr - y)
                          /\ rent[yr].annualIncome =
                                without.rent[yr].annualIncome
                                  + event.amount * Pow(raise, yr - y)

\* 12000 more from year 1 on, income doubling every year, overridden to 60000
\* in year 1: 72000 in year 1, 144000 in year 2.
C19_Witness ==
    /\ SimReturned
    /\ simIn.years >= 2
    /\ simIn.annualRaise = 100
    /\ incomeAdjustments = << [year |-> 1, income |-> 60000] >>
    /\ simIn.lifeEvents = << [year |-> 1, description |-> "", type |-> "income",
                              amount |-> 12000] >>
    /\ simOut[1].buy[1].annualIncome = 72000
    /\ simOut[1].buy[1].monthlyIncome = 6000
    /\ simOut[1].buy[2].annualIncome = 144000

\* C20: the buy simulation starts from max(0, currentPortfolio -
\* downPaymentAmount), the rent simulation from the full currentPortfolio:
\* the portfolios recorded for year 1 are those grown from these balances.
C20_StartingPortfolios ==
    SimReturned =>
        /\ simOut[1].buy[1].portfolio =
              Max(0, GrownIn(simOut[1].buy, 1, BuyStart)
                       - AmountIn(simIn.lifeEvents, "one-time", 1, 1))
        /\ simOut[1].rent[1].portfolio =
              Max(0, GrownIn(simOut[1].rent, 1, RentStart)
                       - AmountIn(simIn.lifeEvents, "one-time", 1, 1))

\* A down payment of 262080 against a portfolio of 20000: the buyer starts
\* from 0 and ends year 1 with nothing, the renter starts from 20000.
C20_Witness ==
    /\ SimReturned
    /\ simIn.scenario = CostlyLoan
    /\ simIn.lifeEvents = <<>>
    /\ simIn.investmentReturn = 0
    /\ BuyStart = 0
    /\ simOut[1].buy[1].monthlySavings = 0
    /\ simOut[1].buy[1].portfolio = 0
    /\ simOut[1].rent[1].portfolio = 20000 + 12 * simOut[1].rent[1].monthlySavings

----------------------------------------------------------------------------
(* Properties of the yearly records *)

\* The equity of the home in the given year, from the run's own projection
\* while the loan runs and home value less a balance of 0 afterwards.
HomeEquityIn(year) ==
    IF year <= Len(simOut[1].equityData)
    THEN simOut[1].equityData[year].equity
    ELSE simIn.scenario.propertyInfo.purchasePrice
            * Pow(1 + (simIn.appreciationRate \div 100), year)

\* C21: the buy records and the rent records each number `years`, numbered
\* 1..years; a buy record has netWorth = portfolio + equity with the equity
\* of that year's equity snapshot, a rent record has netWorth = portfolio.
C21_NetWorthIdentities ==
    SimReturned =>
        /\ Len(simOut[1].buy) = simIn.years
        /\ Len(simOut[1].rent) = simIn.years
        /\ \A y \in 1 .. simIn.years :
              LET b == simOut[1].buy[y]
                  r == simOut[1].rent[y]
              IN  /\ b.year = y
                  /\ r.year = y
                  /\ b.netWorth = b.portfolio + b.equity
                  /\ (y <= Len(simOut[1].equityData) =>
                         b.equity = simOut[1].equityData[y].equity)
                  /\ r.netWorth = r.portfolio

\* Two years of the two-year loan with flat prices: the buyer's net worth in
\* year 2 is the portfolio plus the whole price, the renter's the portfolio.
C21_Witness ==
    /\ SimReturned
    /\ simIn.scenario = TwoYearLoan
    /\ simIn.years = 2
    /\ simIn.appreciationRate = 0
    /\ simOut[1].buy[2].equity = 5 * Unit
    /\ simOut[1].buy[2].netWorth = simOut[1].buy[2].portfolio + 5 * Unit
    /\ simOut[1].rent[2].netWorth = simOut[1].rent[2].portfolio

\* C26 (as claimed): with appreciation >= 0 and a loan >= 0 the equity of the
\* buy records never decreases from one year to the next over the whole
\* horizon, also past the loan term, where the record carries the home's
\* equity and does not fall back to 0.
C26_EquityNeverDecreases ==
    (SimReturned /\ simIn.appreciationRate >= 0
        /\ simIn.scenario.calculations.loanAmount >= 0) =>
        \A y \in 1 .. simIn.years :
            /\ (y > 1 => simOut[1].buy[y].equity >= simOut[1].buy[y - 1].equity)
            /\ simOut[1].buy[y].equity = HomeEquityIn(y)

\* C27: for savingsRate >= 0 and investmentReturn >= 0, whatever the life
\* events and income adjustments, every buy record and every rent record has
\* monthlySavings >= 0 and portfolio >= 0.
C27_SavingsAndPortfolioNonNegative ==
    (SimReturned /\ simIn.savingsRate >= 0 /\ simIn.investmentReturn >= 0) =>
        \A y \in 1 .. simIn.years :
            /\ simOut[1].buy[y].monthlySavings >= 0
            /\ simOut[1].buy[y].portfolio >= 0
            /\ simOut[1].rent[y].monthlySavings >= 0
            /\ simOut[1].rent[y].portfolio >= 0

\* The buyer of the costly loan spends more than the income, saves nothing,
\* and a one-time expense of 10000 meets an empty portfolio.
C27_Witness ==
    /\ SimReturned
    /\ simIn.scenario = CostlyLoan
    /\ simIn.lifeEvents = << [year |-> 1, description |-> "", type |-> "one-time",
                              amount |-> 10000] >>
    /\ simOut[1].buy[1].monthlyDiscretionary < 0
    /\ simOut[1].buy[1].monthlySavings = 0
    /\ simOut[1].buy[1].oneTimeExpense > GrownIn(simOut[1].buy, 1, BuyStart)
    /\ simOut[1].buy[1].portfolio = 0

\* C22: with no down payment, rentIncrease = 0 and initialRent equal to the
\* scenario's total monthly housing cost, the buy record and the rent record
\* of every year agree on annualIncome, monthlyExpenses, monthlyDiscretionary,
\* monthlySavings and portfolio.
C22_BuyAndRentAgree ==
    (SimReturned /\ simIn.scenario.propertyInfo.downPaymentAmount = 0
        /\ simIn.rentIncrease = 0
        /\ simIn.initialRent = simIn.scenario.calculations.totalMonthlyCost) =>
        \A y \in 1 .. simIn.years :
            LET b == simOut[1].buy[y]
                r == simOut[1].rent[y]
            IN  /\ b.annualIncome = r.annualIncome
                /\ b.monthlyExpenses = r.monthlyExpenses
                /\ b.monthlyDiscretionary = r.monthlyDiscretionary
                /\ b.monthlySavings = r.monthlySavings
                /\ b.portfolio = r.portfolio

\* Three years with a raise, an override in year 2, an ongoing expense from
\* year 1 and a one-time expense in year 3: the two loops agree.
C22_Witness ==
    /\ SimReturned
    /\ simIn.scenario = ZeroDownLoan
    /\ simIn.initialRent = 2580
    /\ simIn.years = 3
    /\ simIn.annualRaise = 100
    /\ incomeAdjustments = << [year |-> 2, income |-> 60000] >>
    /\ simIn.lifeEvents =
          << [year |-> 1, description |-> "", type |-> "ongoing", amount |-> 6000],
             [year |-> 3, description |-> "", type |-> "one-time", amount |-> 10000] >>
    /\ simOut[1].buy[2].monthlyExpenses = 2580 + 2500 + 500
    /\ simOut[1].rent[3].portfolio = simOut[1].buy[3].portfolio
    /\ simOut[1].rent[3].portfolio > 0

\* C23 (as claimed): the simulator is a function of its arguments alone: an
\* analysis run again with the same arguments returns the records of the
\* previous run, whatever addIncomeAdjustment and removeIncomeAdjustment did
\* in between (the arguments, simIn, never change in this specification).
C23_SameArgumentsSameRecords ==
    [][(HandleUpdateAnalysis /\ simOut # <<>>) => simOut' = simOut]_vars

EquityReturned == calcIn # <<>> /\ calcIn.fn = "equity" /\ calcOut # <<>>

\* C25: every equity snapshot of a loan projected over its term has homeValue
\* = purchasePrice * (1 + appreciation/100)^year, loanBalance = the schedule's
\* balance after 12*year payments, principalPaid = initialLoan - loanBalance
\* and equity = downPayment + principalPaid + (homeValue - purchasePrice) =
\* homeValue - loanBalance, with downPayment = purchasePrice - initialLoan;
\* the equity is reported as computed, negative when the home is worth less
\* than the balance.
C25_EquityIdentity ==
    EquityReturned =>
        LET schedule == generateAmortizationSchedule(calcIn.principal, calcIn.rate,
                                                     calcIn.years)
            downPayment == calcIn.purchasePrice - calcIn.principal
        IN  /\ Len(calcOut[1]) = calcIn.years
            /\ \A y \in 1 .. Len(calcOut[1]) :
                  LET row == calcOut[1][y]
                  IN  /\ row.year = y
                      /\ row.homeValue =
                            calcIn.purchasePrice
                              * Pow(1 + (calcIn.appreciationRate \div 100), y)
                      /\ row.loanBalance = schedule[12 * y].balance
                      /\ row.principalPaid = calcIn.principal - row.loanBalance
                      /\ row.equity = downPayment + row.principalPaid
                                        + (row.homeValue - calcIn.purchasePrice)
                      /\ row.equity = row.homeValue - row.loanBalance

\* A home that loses its whole value in year 1 of a two-year loan of 4 units:
\* the equity of year 1 is minus the remaining 2 units.
C25_Witness ==
    /\ EquityReturned
    /\ calcIn.principal = 4 * Unit
    /\ calcIn.rate = 0
    /\ calcIn.years = 2
    /\ calcIn.appreciationRate = -100
    /\ calcOut[1][1].homeValue = 0
    /\ calcOut[1][1].equity = -(2 * Unit)

\* C28: when calculateYearsToGoal returns a finite k for annualReturn >= 0,
\* monthlyContribution > 0 and startingAmount < goalAmount, the projection
\* calculateInvestmentGrowth(startingAmount, monthlyContribution, annualReturn,
\* k) has a year-k value >= goalAmount and, when k > 1, a year-(k-1) value
\* < goalAmount.
C28_GoalSeekAgreesWithGrowth ==
    ( /\ goalPc = "done"
      /\ goalIn.annualReturn >= 0
      /\ goalIn.monthlyContribution > 0
      /\ goalIn.startingAmount < goalIn.goalAmount
      /\ goalResult[1].finite ) =>
        LET k == goalResult[1].years
            rows == calculateInvestmentGrowth(goalIn.startingAmount,
                        goalIn.monthlyContribution, goalIn.annualReturn, k)
        IN  /\ k >= 1
            /\ rows[k].value >= goalIn.goalAmount
            /\ k > 1 => rows[k - 1].value < goalIn.goalAmount

\* 1 a month doubling monthly passes 200000 in month 17: k = 2, the year-1
\* value is 8190 and the year-2 value 2^25 - 2.
C28_Witness ==
    /\ goalPc = "done"
    /\ goalIn = [startingAmount |-> 0, monthlyContribution |-> 1,
                 annualReturn |-> 1200, goalAmount |-> 200000]
    /\ goalMonths = 17
    /\ goalResult = << Years(2) >>
    /\ calculateInvestmentGrowth(0, 1, 1200, 2)[1].value = 8190
    /\ calculateInvestmentGrowth(0, 1, 1200, 2)[2].value = 33554430

----------------------------------------------------------------------------
(* Scenario store *)

\* The rules that make a scenario invalid: a blank name, purchasePrice <= 0,
\* downPaymentPercent outside [0, 100], interestRate < 0, loanTerm <= 0,
\* annualIncome <= 0, or a missing propertyInfo or incomeInfo.
InvalidScenario(scenario) ==
    \/ \A i \in 1 .. Len(scenario.name) : scenario.name[i] = " "
    \/ scenario.propertyInfo = <<>>
    \/ scenario.incomeInfo = <<>>
    \/ scenario.propertyInfo[1].purchasePrice <= 0
    \/ scenario.propertyInfo[1].downPaymentPercent \notin 0 .. 100
    \/ scenario.propertyInfo[1].interestRate < 0
    \/ scenario.propertyInfo[1].loanTerm <= 0
    \/ scenario.incomeInfo[1].annualIncome <= 0

\* The step just taken is a call of importFromJSON with these outcomes.
ImportOutcome ==
    LET input == storeResult'[1].arguments.input[1]
        returned == storeResult'[1].returned
        items == input.items
        importedIds == { items[j].id : j \in 1 .. Len(items) }
    IN  IF input.kind # "array" \/ \E j \in 1 .. Len(items) : InvalidScenario(items[j])
        THEN /\ ~returned.success
             /\ scenarios' = scenarios
        ELSE /\ returned.success
             /\ returned.newCount + returned.updatedCount = Len(items)
             /\ Len(scenarios') =
                   Len(scenarios) + Cardinality(importedIds \ StoredIds(scenarios))
             /\ \A i \in 1 .. Len(scenarios) :
                   /\ scenarios'[i].id = scenarios[i].id
                   /\ scenarios[i].id \notin importedIds => scenarios'[i] = scenarios[i]
             /\ \A j \in 1 .. Len(items) :
                   \E i \in 1 .. Len(scenarios') :
                      /\ scenarios'[i].id = items[j].id
                      /\ (\A k \in j + 1 .. Len(items) : items[k].id # items[j].id)
                            => scenarios'[i] = items[j]

\* C24: importFromJSON fails and leaves the stored list as it was when its
\* input is not an array or holds an invalid scenario; otherwise it succeeds,
\* every imported scenario replaces the stored one of its id or is appended,
\* the other stored scenarios stay in place, and newCount + updatedCount is
\* the number of imported scenarios.
C24_ImportAllOrNothing ==
    [][storeResult'[1].op = "importFromJSON" => ImportOutcome]_vars

\* An import of two scenarios that replaced one stored scenario and appended
\* the other.
C24_Witness ==
    /\ storeResult # <<>>
    /\ storeResult[1].op = "importFromJSON"
    /\ storeResult[1].returned = Returned(TRUE, 1, 1)
    /\ storeResult[1].arguments.input[1].items = << Flat(<<"a">>), Flat(<<>>) >>
    /\ scenarios = << Home(<<"u1">>), Flat(<<"a">>), Flat(<<>>) >>

NoDuplicateIds ==
    \A i, j \in 1 .. Len(scenarios) : scenarios[i].id = scenarios[j].id => i = j

\* The step just taken is a call of saveScenario: an entry of the same id is
\* replaced in place, otherwise one entry is appended.
SaveOutcome ==
    LET scenario == storeResult'[1].arguments.scenario[1]
        n == Len(scenarios)
    IN  IF scenario.id \in StoredIds(scenarios)
        THEN /\ Len(scenarios') = n
             /\ \E i \in 1 .. n : /\ scenarios[i].id = scenario.id
                                   /\ scenarios' = [scenarios EXCEPT ![i] = scenario]
        ELSE /\ Len(scenarios') = n + 1
             /\ SubSeq(scenarios', 1, n) = scenarios
             /\ scenarios'[n + 1].name = scenario.name
             /\ scenario.id # <<>> => scenarios'[n + 1] = scenario

\* The step just taken is a call of deleteScenario: true exactly when the id
\* was stored, and then that one entry is gone and the rest is as before.
DeleteOutcome ==
    LET id == storeResult'[1].arguments.id
        present == <<id>> \in StoredIds(scenarios)
    IN  /\ storeResult'[1].returned.success = present
        /\ IF present
           THEN \E i \in 1 .. Len(scenarios) : /\ scenarios[i].id = <<id>>
                                                /\ scenarios' = RemoveAt(scenarios, i)
           ELSE scenarios' = scenarios

\* C29: from the empty store, whatever saveScenario, updateScenario,
\* deleteScenario and importFromJSON calls are made, no two stored scenarios
\* have the same id; saveScenario replaces the entry of a stored id in place
\* and appends one entry for a new id; deleteScenario returns true exactly
\* when the id was stored, removes that entry only and keeps the others in
\* their order.
C29_UniqueIds ==
    /\ []NoDuplicateIds
    /\ [][storeResult'[1].op = "saveScenario" => SaveOutcome]_vars
    /\ [][storeResult'[1].op = "deleteScenario" => DeleteOutcome]_vars

\* The middle one of three stored scenarios has just been deleted.
C29_Witness ==
    /\ storeResult # <<>>
    /\ storeResult[1].op = "deleteScenario"
    /\ storeResult[1].arguments.id = "a"
    /\ storeResult[1].returned.success
    /\ scenarios = << Home(<<"u1">>), Flat(<<>>) >>

----------------------------------------------------------------------------
(* Life-events form *)

\* C30: removeLifeEvent(index) leaves getLifeEventsFromForm returning the
\* other events with the year, description, type and amount they had in the
\* form before the removal.
C30_RemoveKeepsEnteredValues ==
    [][\A index \in 0 .. MaxRows - 1 :
          RemoveLifeEvent(index) =>
              getLifeEventsFromForm' = Splice(getLifeEventsFromForm, index)]_vars

====
